---- MODULE Spec2Model ----
(***************************************************************************)
(* A model of the ILBM decoder: the big-endian byte cursor (bytes.rs), the *)
(* run-length decompressor (compression.rs), the chunked container reader  *)
(* (iff.rs) and the image decoder read_file with its helpers (read.rs).    *)
(*                                                                         *)
(* Bytes are naturals 0..255; a byte slice is a sequence of bytes.         *)
(***************************************************************************)
EXTENDS Integers, Sequences, FiniteSets, TLC

VARIABLES
    u_input,    \* unpacker harness: the compressed input slice
    u_width,    \* unpacker harness: the target length byte_width
    u_res,      \* unpacker harness: the value returned by unpacker, or Pending
    i_leaves,   \* reader harness: the chunks that were encoded
    i_wrapped,  \* reader harness: the chunks sit inside one FORM ILBM chunk
    i_kept,     \* reader harness: how many bytes of the encoding were kept
    i_stream,   \* reader harness: the bytes given to IffReader::new
    i_reader,   \* reader harness: the top-level IffReader
    i_chunks,   \* reader harness: the chunks the top-level reader yielded
    i_done,     \* reader harness: the top-level reader returned None
    i_sub,      \* reader harness: the reader sub_chunks() returned, or NoReader
    i_subchunks,\* reader harness: the chunks the nested reader yielded
    i_subdone,  \* reader harness: the nested reader returned None
    f_desc,     \* read_file: the top-level chunks the file was encoded from
    f_bytes,    \* read_file: all_bytes
    f_opts,     \* read_file: options
    f_pc,       \* read_file: "top" or "sub" (the loop about to call next), "done"
    f_top,      \* read_file: reader, the top-level IffReader
    f_tops,     \* read_file: the chunks the top-level loop has been given
    f_subr,     \* read_file: the reader chunk.sub_chunks() returned
    f_sub_chunk,\* read_file: sub_chunk, the chunk the inner loop was given last
    f_image,    \* read_file: image
    f_map,      \* read_file: map
    f_got_header, \* read_file: got_header
    f_got_camg, \* read_file: got_camg
    f_result    \* read_file: what the call returned, or Running

u_vars == <<u_input, u_width, u_res>>
i_vars == <<i_leaves, i_wrapped, i_kept, i_stream, i_reader, i_chunks, i_done,
            i_sub, i_subchunks, i_subdone>>

f_vars == <<f_desc, f_bytes, f_opts, f_pc, f_top, f_tops, f_subr, f_sub_chunk,
            f_image, f_map, f_got_header, f_got_camg, f_result>>

vars == <<u_input, u_width, u_res,
          i_leaves, i_wrapped, i_kept, i_stream, i_reader, i_chunks, i_done,
          i_sub, i_subchunks, i_subdone,
          f_desc, f_bytes, f_opts, f_pc, f_top, f_tops, f_subr, f_sub_chunk,
          f_image, f_map, f_got_header, f_got_camg, f_result>>

(***************************************************************************)
(* Bounds of the model.                                                    *)
(***************************************************************************)
MaxIn == 4          \* longest compressed input given to unpacker
MaxWidth == 3       \* largest target length given to unpacker
MaxChunks == 2      \* most chunks encoded into a stream for the reader
MaxItems == 4       \* most chunks in a file given to read_file
MaxW == 2           \* largest image width in a generated image file
MaxH == 2           \* largest image height in a generated image file

\* The bytes compressed inputs are drawn from: literal controls 0, 1, 2,
\* a data byte that is also a long literal control (66), the no-op (128),
\* and replicate controls of 4, 3 and 2 bytes (253, 254, 255).
UnpackBytes == {0, 1, 2, 66, 128, 253, 254, 255}

RECURSIVE SeqsUpTo(_, _)
SeqsUpTo(S, n) ==
    IF n = 0 THEN {<<>>}
    ELSE LET shorter == SeqsUpTo(S, n - 1)
         IN  shorter \cup {Append(s, b) : s \in {t \in shorter : Len(t) = n - 1}, b \in S}

Pending == [kind |-> "Pending", rest |-> <<>>, out |-> <<>>]

UnpackIdle ==
    /\ u_input = <<>>
    /\ u_width = 0
    /\ u_res = Pending

(***************************************************************************)
(* bytes.rs: the byte cursor.  A read returns ok = FALSE (Error::NoData)   *)
(* when the slice is too short, and otherwise the value and the rest.      *)
(***************************************************************************)
\* A cursor that reads a zero past the end of the slice.
get_u8_ZeroAtEnd(buf) ==
    IF Len(buf) < 1
    THEN [ok |-> TRUE, val |-> 0, rest |-> buf]
    ELSE [ok |-> TRUE, val |-> buf[1], rest |-> Tail(buf)]

get_u8(buf) ==
    IF Len(buf) < 1
    THEN [ok |-> FALSE, val |-> 0, rest |-> buf]
    ELSE [ok |-> TRUE, val |-> buf[1], rest |-> Tail(buf)]

\* bytes[0] as i8: two's complement reinterpretation of the byte.
get_i8(buf) ==
    IF Len(buf) < 1
    THEN [ok |-> FALSE, val |-> 0, rest |-> buf]
    ELSE [ok |-> TRUE,
          val |-> IF buf[1] >= 128 THEN buf[1] - 256 ELSE buf[1],
          rest |-> Tail(buf)]

(***************************************************************************)
(* compression.rs: unpacker.                                               *)
(***************************************************************************)
UnpackErr(kind) == [kind |-> kind, rest |-> <<>>, out |-> <<>>]

\* for _i in 0..(n+1) { unpacked.push(data.get_u8()?); }
RECURSIVE CopyLiteral(_, _, _)
CopyLiteral(data, unpacked, count) ==
    IF count = 0
    THEN [ok |-> TRUE, data |-> data, unpacked |-> unpacked]
    ELSE LET r == get_u8(data)
         IN  IF ~r.ok
             THEN [ok |-> FALSE, data |-> data, unpacked |-> unpacked]
             ELSE CopyLiteral(r.rest, Append(unpacked, r.val), count - 1)

\* for _i in 0..(-n + 1) { unpacked.push(b); }
RECURSIVE Replicate_OneShort(_, _, _)
Replicate_OneShort(unpacked, b, count) ==
    IF count <= 1 THEN unpacked
    ELSE Replicate_OneShort(Append(unpacked, b), b, count - 1)

RECURSIVE Replicate(_, _, _)
Replicate(unpacked, b, count) ==
    IF count <= 0 THEN unpacked
    ELSE Replicate(Append(unpacked, b), b, count - 1)

\* The while loop and the final length test.
RECURSIVE UnpackLoop_NoLengthTest(_, _, _)
UnpackLoop_NoLengthTest(data, unpacked, byte_width) ==
    IF ~(Len(unpacked) < byte_width)
    THEN [kind |-> "Ok", rest |-> data, out |-> unpacked]
    ELSE LET c == get_i8(data)
             n == c.val
         IN  IF ~c.ok THEN UnpackErr("NoData")
             ELSE IF n >= 0
             THEN LET l == CopyLiteral(c.rest, unpacked, n + 1)
                  IN  IF ~l.ok THEN UnpackErr("NoData")
                      ELSE UnpackLoop_NoLengthTest(l.data, l.unpacked, byte_width)
             ELSE IF n # -128
             THEN LET b == get_u8(c.rest)
                  IN  IF ~b.ok THEN UnpackErr("NoData")
                      ELSE UnpackLoop_NoLengthTest(b.rest, Replicate(unpacked, b.val, -n + 1),
                                         byte_width)
             ELSE UnpackLoop_NoLengthTest(c.rest, unpacked, byte_width)

RECURSIVE UnpackLoop(_, _, _)
UnpackLoop(data, unpacked, byte_width) ==
    IF ~(Len(unpacked) < byte_width)
    THEN IF Len(unpacked) # byte_width
         THEN UnpackErr("InvalidData")
         ELSE [kind |-> "Ok", rest |-> data, out |-> unpacked]
    ELSE LET c == get_i8(data)
             n == c.val
         IN  IF ~c.ok THEN UnpackErr("NoData")
             ELSE IF n >= 0
             THEN LET l == CopyLiteral(c.rest, unpacked, n + 1)
                  IN  IF ~l.ok THEN UnpackErr("NoData")
                      ELSE UnpackLoop(l.data, l.unpacked, byte_width)
             ELSE IF n # -128
             THEN LET b == get_u8(c.rest)
                  IN  IF ~b.ok THEN UnpackErr("NoData")
                      ELSE UnpackLoop(b.rest, Replicate(unpacked, b.val, -n + 1),
                                      byte_width)
             ELSE UnpackLoop(c.rest, unpacked, byte_width)

unpacker(input, byte_width) == UnpackLoop(input, <<>>, byte_width)

(***************************************************************************)
(* iff.rs: chunk tags, IffChunk and IffReader.                             *)
(***************************************************************************)
FORM == <<70, 79, 82, 77>>
ILBM == <<73, 76, 66, 77>>
BMHD == <<66, 77, 72, 68>>
CMAP == <<67, 77, 65, 80>>
CAMG == <<67, 65, 77, 71>>
DPI_ == <<68, 80, 73, 32>>
BODY == <<66, 79, 68, 89>>
ANNO == <<65, 78, 78, 79>>
SVX8 == <<56, 83, 86, 88>>

\* IffReader::new over a buffer: nothing read yet, no padding owed.
IffReaderNew(bytes) == [data |-> bytes, pos |-> 0, skip |-> FALSE]
NoReader == [data |-> <<>>, pos |-> -1, skip |-> FALSE]

NoChunk == [ck_id |-> <<>>, data |-> <<>>]

ReaderIdle ==
    /\ i_leaves = <<>>
    /\ i_wrapped = FALSE
    /\ i_kept = 0
    /\ i_stream = <<>>
    /\ i_reader = NoReader
    /\ i_chunks = <<>>
    /\ i_done = TRUE
    /\ i_sub = NoReader
    /\ i_subchunks = <<>>
    /\ i_subdone = TRUE

\* Read::read_exact on the cursor: n bytes from the position, or an error
\* that leaves the position where it was.
read_exact_Short(r, n) ==
    LET have == IF Len(r.data) - r.pos < n THEN Len(r.data) - r.pos ELSE n
    IN  [ok |-> TRUE,
         bytes |-> SubSeq(r.data, r.pos + 1, r.pos + have),
         reader |-> [r EXCEPT !.pos = r.pos + have]]

read_exact(r, n) ==
    IF Len(r.data) - r.pos < n
    THEN [ok |-> FALSE, bytes |-> <<>>, reader |-> r]
    ELSE [ok |-> TRUE,
          bytes |-> SubSeq(r.data, r.pos + 1, r.pos + n),
          reader |-> [r EXCEPT !.pos = r.pos + n]]

u32_from_be_bytes(b) == b[1] * 16777216 + b[2] * 65536 + b[3] * 256 + b[4]

\* self.skip = len & 1 != 0
SkipAfter_Never(len) == FALSE

SkipAfter(len) == len % 2 # 0

\* A reader that yields whatever is left when the payload is short.
IffNext_ShortPayload(r) ==
    LET none(rd) == [some |-> FALSE, chunk |-> NoChunk, reader |-> rd]
        pad == IF r.skip THEN read_exact(r, 1)
               ELSE [ok |-> TRUE, bytes |-> <<>>, reader |-> r]
    IN  IF ~pad.ok THEN none(pad.reader)
        ELSE LET id == read_exact(pad.reader, 4)
             IN  IF ~id.ok THEN none(id.reader)
                 ELSE LET lb == read_exact(id.reader, 4)
                      IN  IF ~lb.ok THEN none(lb.reader)
                          ELSE LET len == u32_from_be_bytes(lb.bytes)
                                   r4 == [lb.reader EXCEPT !.skip = SkipAfter(len)]
                                   pl == read_exact_Short(r4, len)
                               IN  [some |-> TRUE,
                                    chunk |-> [ck_id |-> id.bytes, data |-> pl.bytes],
                                    reader |-> pl.reader]

\* IffReader::next: the padding byte owed, the tag, the length, the payload.
\* Any short read returns None.
IffNext(r) ==
    LET none(rd) == [some |-> FALSE, chunk |-> NoChunk, reader |-> rd]
        pad == IF r.skip THEN read_exact(r, 1)
               ELSE [ok |-> TRUE, bytes |-> <<>>, reader |-> r]
    IN  IF ~pad.ok THEN none(pad.reader)
        ELSE LET id == read_exact(pad.reader, 4)
             IN  IF ~id.ok THEN none(id.reader)
                 ELSE LET lb == read_exact(id.reader, 4)
                      IN  IF ~lb.ok THEN none(lb.reader)
                          ELSE LET len == u32_from_be_bytes(lb.bytes)
                                   r4 == [lb.reader EXCEPT !.skip = SkipAfter(len)]
                                   pl == read_exact(r4, len)
                               IN  IF ~pl.ok THEN none(pl.reader)
                                   ELSE [some |-> TRUE,
                                         chunk |-> [ck_id |-> id.bytes,
                                                    data |-> pl.bytes],
                                         reader |-> pl.reader]

is_form(chunk) == chunk.ck_id = FORM

\* IffChunk::form_type: the first 4 payload bytes, or the abnormal abort.
form_type(chunk) ==
    IF is_form(chunk) /\ Len(chunk.data) >= 4
    THEN [panic |-> FALSE, id |-> SubSeq(chunk.data, 1, 4)]
    ELSE [panic |-> TRUE, id |-> <<>>]

\* IffChunk::sub_chunks: a fresh reader over data[4..]; the slice aborts
\* when the payload has fewer than 4 bytes.
sub_chunks(chunk) ==
    IF Len(chunk.data) >= 4
    THEN [panic |-> FALSE,
          reader |-> IffReaderNew(SubSeq(chunk.data, 5, Len(chunk.data)))]
    ELSE [panic |-> TRUE, reader |-> NoReader]

(***************************************************************************)
(* bytes.rs: the wider reads of the byte cursor.                           *)
(***************************************************************************)
get_u16(buf) ==
    IF Len(buf) < 2
    THEN [ok |-> FALSE, val |-> 0, rest |-> buf]
    ELSE [ok |-> TRUE, val |-> buf[1] * 256 + buf[2],
          rest |-> SubSeq(buf, 3, Len(buf))]

\* i16::from_be_bytes: two's complement reinterpretation of the 16 bits.
get_i16(buf) ==
    IF Len(buf) < 2
    THEN [ok |-> FALSE, val |-> 0, rest |-> buf]
    ELSE LET u == buf[1] * 256 + buf[2]
         IN  [ok |-> TRUE, val |-> IF u >= 32768 THEN u - 65536 ELSE u,
              rest |-> SubSeq(buf, 3, Len(buf))]

get_u32(buf) ==
    IF Len(buf) < 4
    THEN [ok |-> FALSE, val |-> 0, rest |-> buf]
    ELSE [ok |-> TRUE, val |-> u32_from_be_bytes(buf),
          rest |-> SubSeq(buf, 5, Len(buf))]

(***************************************************************************)
(* lib.rs: the image value and its parts.                                  *)
(***************************************************************************)
Pow2(n) == 2 ^ n

\* Bit k (0 = least significant) of the natural v.
BitOf(v, k) == (v \div Pow2(k)) % 2

\* a | b on bytes.
BitOr8(a, b) ==
    LET bit(k) == IF BitOf(a, k) = 1 \/ BitOf(b, k) = 1 THEN Pow2(k) ELSE 0
    IN  bit(0) + bit(1) + bit(2) + bit(3) + bit(4) + bit(5) + bit(6) + bit(7)

as_masking(v) ==
    CASE v = 0 -> "NoMask"
      [] v = 1 -> "HasMask"
      [] v = 2 -> "HasTransparentColor"
      [] v = 3 -> "Lasso"
      [] OTHER -> "NoMask"

HAM_BIT == 2048
HALFBRITE_BIT == 128

is_ham(mode) == (mode \div HAM_BIT) % 2 # 0
is_halfbrite(mode) == (mode \div HALFBRITE_BIT) % 2 # 0

\* DisplayMode::ham()
DisplayMode_ham == HAM_BIT

\* An i16 cast with `as usize` is sign-extended to 64 bits; the cast values
\* are kept as the signed numbers and compared as the usize values they
\* stand for: a negative number stands for a value above every other.
UsizeOfI16Less(a, b) ==
    IF (a < 0) = (b < 0) THEN a < b ELSE b < 0

\* IlbmImage { form_type, ..Default::default() }
DefaultImage(ft) ==
    [form_type |-> ft,
     size |-> <<0, 0>>,
     map_size |-> 0,
     chunk_types |-> <<>>,
     planes |-> 0,
     masking |-> "NoMask",
     compression |-> FALSE,
     display_mode |-> 0,
     dpi |-> <<0, 0>>,
     pixel_aspect |-> <<0, 0>>,
     transparent_color |-> 0,
     page_size |-> <<0, 0>>,
     pixels |-> <<>>]

NoImageYet == DefaultImage(<<>>)

NoMap == [some |-> FALSE, colors |-> <<>>]

\* Results of read_file and of its helpers: Ok, one of the Error kinds, the
\* abnormal abort of the process ("Panic"), or "Running" while in progress.
Res(kind) == [kind |-> kind, index |-> 0, map_size |-> 0, msg |-> ""]
NoMapEntry(index, map_size) ==
    [kind |-> "NoMapEntry", index |-> index, map_size |-> map_size, msg |-> ""]

\* An abnormal abort and the statement that raised it.
Panic(msg) == [kind |-> "Panic", index |-> 0, map_size |-> 0, msg |-> msg]

(***************************************************************************)
(* read.rs: the chunk readers.                                             *)
(***************************************************************************)
\* read_dpi: both reads start from a fresh chunk.data().
read_dpi(data) ==
    LET a == get_u16(data)
        b == get_u16(data)
    IN  IF ~a.ok \/ ~b.ok
        THEN [res |-> Res("NoData"), dpi |-> <<0, 0>>]
        ELSE [res |-> Res("Ok"), dpi |-> <<a.val, b.val>>]

read_display_mode(data) ==
    LET m == get_u32(data)
    IN  IF ~m.ok THEN [res |-> Res("NoData"), mode |-> 0]
        ELSE [res |-> Res("Ok"), mode |-> m.val]

\* The legacy fix of one channel: c | (c >> 4).
Widen(c) == BitOr8(c, c \div 16)

\* read_color_map: len / 3 entries; the 4-bit fix when no channel of any
\* entry has a bit set in its low nibble.
read_color_map_PerEntry(data) ==
    [i \in 1..(Len(data) \div 3) |->
        LET rgb == <<data[3 * i - 2], data[3 * i - 1], data[3 * i]>>
        IN  IF rgb[1] % 16 = 0 /\ rgb[2] % 16 = 0 /\ rgb[3] % 16 = 0
            THEN <<Widen(rgb[1]), Widen(rgb[2]), Widen(rgb[3])>>
            ELSE rgb]

read_color_map(data) ==
    LET count == Len(data) \div 3
        raw == [i \in 1..count |->
                   <<data[3 * i - 2], data[3 * i - 1], data[3 * i]>>]
        found_low_bits ==
            \E i \in 1..count :
                BitOr8(BitOr8(raw[i][1] % 16, raw[i][2] % 16), raw[i][3] % 16) # 0
    IN  IF ~found_low_bits
        THEN [i \in 1..count |->
                 <<Widen(raw[i][1]), Widen(raw[i][2]), Widen(raw[i][3])>>]
        ELSE raw

\* read_bitmap_header: the length assertion, the 20-byte layout read field
\* by field, then the validations.
read_bitmap_header_PlanesFirst(data, image) ==
    IF Len(data) < 20 THEN [res |-> Panic("assert buf.len() >= 20"), image |-> image]
    ELSE LET im == [image EXCEPT
                      !.size = <<get_u16(SubSeq(data, 1, 2)).val,
                                 get_u16(SubSeq(data, 3, 4)).val>>,
                      !.planes = data[9]]
         IN  IF im.planes = 0 THEN [res |-> Res("NoPlanes"), image |-> im]
             ELSE IF im.size[1] = 0 \/ im.size[2] = 0
             THEN [res |-> Res("InvalidHeader"), image |-> im]
             ELSE [res |-> Res("Ok"), image |-> im]

read_bitmap_header(data, image) ==
    IF Len(data) < 20 THEN [res |-> Panic("assert buf.len() >= 20"), image |-> image]
    ELSE LET w == get_u16(data)
             h == get_u16(w.rest)
             x == get_i16(h.rest)
             y == get_i16(x.rest)
             planes == get_u8(y.rest)
             masking == get_u8(planes.rest)
             compression == get_u8(masking.rest)
             pad == get_u8(compression.rest)
             transparent == get_u16(pad.rest)
             ax == get_u8(transparent.rest)
             ay == get_u8(ax.rest)
             pw == get_i16(ay.rest)
             ph == get_i16(pw.rest)
             im == [image EXCEPT
                      !.size = <<w.val, h.val>>,
                      !.planes = planes.val,
                      !.masking = as_masking(masking.val),
                      !.compression = (compression.val # 0),
                      !.transparent_color = transparent.val,
                      !.pixel_aspect = <<ax.val, ay.val>>,
                      !.page_size = <<pw.val, ph.val>>]
         IN  IF im.size[1] = 0 \/ im.size[2] = 0
             THEN [res |-> Res("InvalidHeader"), image |-> im]
             ELSE IF im.planes = 0 THEN [res |-> Res("NoPlanes"), image |-> im]
             ELSE [res |-> Res("Ok"), image |-> im]

(***************************************************************************)
(* read.rs: RowIter, the iterator of plane rows.                           *)
(***************************************************************************)
RowIterNew(raw_data, width, compressed) ==
    [raw_data |-> raw_data, width |-> width, compressed |-> compressed]

\* The match on what unpacker returned: any failure ends the iteration.
RowFromUnpacker(it, u) ==
    IF u.kind = "Ok"
    THEN [some |-> TRUE, row |-> u.out, it |-> [it EXCEPT !.raw_data = u.rest]]
    ELSE [some |-> FALSE, row |-> <<>>, it |-> it]

\* RowIter::next: a decompressed row or the next width bytes.
RowIterNext(it) ==
    IF it.compressed
    THEN RowFromUnpacker(it, unpacker(it.raw_data, it.width))
    ELSE IF Len(it.raw_data) < it.width
         THEN [some |-> FALSE, row |-> <<>>, it |-> it]
         ELSE [some |-> TRUE, row |-> SubSeq(it.raw_data, 1, it.width),
               it |-> [it EXCEPT !.raw_data =
                          SubSeq(it.raw_data, it.width + 1, Len(it.raw_data))]]

\* Bytes per row (always even).
row_stride(width) == ((width + 15) \div 16) * 2

\* n successive rows.next().ok_or(IlbmError::NoData)?, one per plane.
RECURSIVE TakeRows(_, _, _)
RECURSIVE TookRow(_, _, _)
TookRow(r, n, got) ==
    IF ~r.some THEN [ok |-> FALSE, rows |-> got, it |-> r.it]
    ELSE TakeRows(r.it, n - 1, Append(got, r.row))

TakeRows(it, n, got) ==
    IF n = 0 THEN [ok |-> TRUE, rows |-> got, it |-> it]
    ELSE TookRow(RowIterNext(it), n, got)

\* A plane-bit test that counts the pixels of a byte from its least
\* significant bit.
PlaneBit_LsbFirst(plane_data, index) ==
    LET offset == index \div 8
        b == index % 8
    IN  /\ offset + 1 <= Len(plane_data)
        /\ BitOf(plane_data[offset + 1], b) = 1

\* The test plane_byte & 0x80 after b shifts of byte offset: is the bit of
\* pixel index set in this plane row?
PlaneBit(plane_data, index) ==
    LET offset == index \div 8
        b == index % 8
    IN  /\ offset + 1 <= Len(plane_data)
        /\ BitOf(plane_data[offset + 1], 7 - b) = 1

\* The planes whose bit is set for pixel index (plane 0 is the first read).
PlanesSet(plane_rows, index) ==
    {p \in 0..(Len(plane_rows) - 1) : PlaneBit(plane_rows[p + 1], index)}

\* The sum of 2^p over a set of bit positions.
RECURSIVE SumPow2(_)
SumPow2(S) ==
    IF S = {} THEN 0
    ELSE LET p == CHOOSE q \in S : TRUE
         IN  Pow2(p) + SumPow2(S \ {p})

\* The u8 row of read_body_with_cmap: plane_bit is a u8 that is shifted
\* left once per plane, so only planes 0..7 can set a bit.
RowU8(plane_rows, width) ==
    [i \in 1..width |-> SumPow2({p \in PlanesSet(plane_rows, i - 1) : p < 8})]

\* The u32 row of read_body_no_map, each value given by its big-endian
\* bytes (to_be_bytes): byte k holds bits 8 * (3 - k) .. 8 * (3 - k) + 7.
RowU32Bytes(plane_rows, width) ==
    [i \in 1..width |->
        LET bits == {p \in PlanesSet(plane_rows, i - 1) : p < 32}
        IN  [k \in 0..3 |->
                SumPow2({q \in 0..7 : 8 * (3 - k) + q \in bits})]]

(***************************************************************************)
(* read.rs: the colour resolvers.                                          *)
(***************************************************************************)
\* push_row_bytes: direct lookup.
RECURSIVE push_row_bytes_ReportsSize(_, _, _)
push_row_bytes_ReportsSize(row, colors, pixels) ==
    IF row = <<>> THEN [res |-> Res("Ok"), pixels |-> pixels]
    ELSE IF Head(row) >= Len(colors)
    THEN [res |-> NoMapEntry(Len(colors), Len(colors)), pixels |-> pixels]
    ELSE push_row_bytes_ReportsSize(Tail(row), colors,
                                    pixels \o colors[Head(row) + 1])

RECURSIVE push_row_bytes(_, _, _)
push_row_bytes(row, colors, pixels) ==
    IF row = <<>> THEN [res |-> Res("Ok"), pixels |-> pixels]
    ELSE LET index == Head(row)
             map_size == Len(colors)
         IN  IF index >= map_size
             THEN [res |-> NoMapEntry(index, map_size), pixels |-> pixels]
             ELSE push_row_bytes(Tail(row), colors, pixels \o colors[index + 1])

\* The pixel loop of push_row_bytes_ham with its running colour.
RECURSIVE HamPixels_RedBlueSwapped(_, _, _, _, _, _, _)
HamPixels_RedBlueSwapped(row, colors, color, pixels, mod_shift, index_mask_bits, mod_color_shift) ==
    IF row = <<>> THEN [res |-> Res("Ok"), pixels |-> pixels]
    ELSE LET row_val == Head(row)
             mod_bits == row_val \div Pow2(mod_shift)
             low_bits == row_val % Pow2(index_mask_bits)
             shifted == low_bits * Pow2(mod_color_shift)
             component == BitOr8(shifted % 256,
                                 (shifted \div Pow2(8 - mod_color_shift)) % 256)
             next(c) == HamPixels_RedBlueSwapped(Tail(row), colors, c, pixels \o c,
                                                 mod_shift, index_mask_bits,
                                                 mod_color_shift)
         IN  CASE mod_bits = 0 ->
                    IF low_bits >= Len(colors)
                    THEN [res |-> NoMapEntry(low_bits, Len(colors)), pixels |-> pixels]
                    ELSE next(colors[low_bits + 1])
               [] mod_bits = 1 -> next(<<component, color[2], color[3]>>)
               [] mod_bits = 2 -> next(<<color[1], color[2], component>>)
               [] OTHER -> next(<<color[1], component, color[3]>>)

RECURSIVE HamPixels(_, _, _, _, _, _, _)
HamPixels(row, colors, color, pixels, mod_shift, index_mask_bits, mod_color_shift) ==
    IF row = <<>> THEN [res |-> Res("Ok"), pixels |-> pixels]
    ELSE LET row_val == Head(row)
             map_size == Len(colors)
             mod_bits == row_val \div Pow2(mod_shift)
             low_bits == row_val % Pow2(index_mask_bits)
             shifted == low_bits * Pow2(mod_color_shift)
             component == BitOr8(shifted % 256,
                                 (shifted \div Pow2(8 - mod_color_shift)) % 256)
             next(c) == HamPixels(Tail(row), colors, c, pixels \o c,
                                  mod_shift, index_mask_bits, mod_color_shift)
         IN  CASE mod_bits = 0 ->
                    IF low_bits >= map_size
                    THEN [res |-> NoMapEntry(low_bits, map_size), pixels |-> pixels]
                    ELSE next(colors[low_bits + 1])
               [] mod_bits = 2 -> next(<<component, color[2], color[3]>>)
               [] mod_bits = 1 -> next(<<color[1], color[2], component>>)
               [] mod_bits = 3 -> next(<<color[1], component, color[3]>>)
               [] OTHER -> [res |-> Panic("ham modifier"), pixels |-> pixels]

\* push_row_bytes_ham with the running colour kept from the row before.
push_row_bytes_ham_KeepsColor(row, planes, colors, pixels, overflow_checks) ==
    IF planes < 2 THEN [res |-> Panic("planes - 2 overflows"), pixels |-> pixels]
    ELSE IF Len(colors) = 0
    THEN [res |-> NoMapEntry(0, 0), pixels |-> pixels]
    ELSE HamPixels(row, colors,
                   IF pixels = <<>> THEN colors[1]
                   ELSE SubSeq(pixels, Len(pixels) - 2, Len(pixels)),
                   pixels, planes - 2, planes - 2, 8 - (planes - 2))

\* push_row_bytes_ham.  planes - 2 on a usize: with overflow checks (a debug
\* build) planes < 2 aborts; without them (a release build) the difference
\* wraps to 2^64 - 1, the shift amounts are taken modulo 64 (1 << 63 as the
\* mask base, row_val >> 63 = 0) and every value is a plain map index.
push_row_bytes_ham(row, planes, colors, pixels, overflow_checks) ==
    LET map_size == Len(colors)
    IN  IF planes < 2
        THEN IF overflow_checks
             THEN [res |-> Panic("planes - 2 overflows"), pixels |-> pixels]
             ELSE IF map_size = 0
             THEN [res |-> NoMapEntry(0, map_size), pixels |-> pixels]
             ELSE push_row_bytes(row, colors, pixels)
        ELSE IF map_size = 0
        THEN [res |-> NoMapEntry(0, map_size), pixels |-> pixels]
        ELSE HamPixels(row, colors, colors[1], pixels,
                       planes - 2, planes - 2, 8 - (planes - 2))

\* A half-intensity lookup that indexes the map with the whole pixel
\* instead of its low 5 bits.
RECURSIVE push_row_bytes_halfbrite_WholeIndex(_, _, _)
push_row_bytes_halfbrite_WholeIndex(row, colors, pixels) ==
    IF row = <<>> THEN [res |-> Res("Ok"), pixels |-> pixels]
    ELSE IF Head(row) >= Len(colors)
    THEN [res |-> NoMapEntry(Head(row), Len(colors)), pixels |-> pixels]
    ELSE push_row_bytes_halfbrite_WholeIndex(
             Tail(row), colors,
             pixels \o (IF BitOf(Head(row), 5) # 0
                        THEN <<colors[Head(row) + 1][1] \div 2,
                               colors[Head(row) + 1][2] \div 2,
                               colors[Head(row) + 1][3] \div 2>>
                        ELSE colors[Head(row) + 1]))

\* push_row_bytes_halfbrite.
RECURSIVE push_row_bytes_halfbrite(_, _, _)
push_row_bytes_halfbrite(row, colors, pixels) ==
    IF row = <<>> THEN [res |-> Res("Ok"), pixels |-> pixels]
    ELSE LET p == Head(row)
             index == p % 32
             map_size == Len(colors)
         IN  IF index >= map_size
             THEN [res |-> NoMapEntry(index, map_size), pixels |-> pixels]
             ELSE LET rgb == colors[index + 1]
                  IN  push_row_bytes_halfbrite(Tail(row), colors,
                         pixels \o (IF BitOf(p, 5) # 0
                                    THEN <<rgb[1] \div 2, rgb[2] \div 2, rgb[3] \div 2>>
                                    ELSE rgb))

(***************************************************************************)
(* read.rs: read_body.                                                     *)
(***************************************************************************)
\* The mask row, read and dropped: let _row_data = rows.next().ok_or(NoData)?
AfterMask(plane_rows, m) ==
    IF ~m.some THEN [ok |-> FALSE, plane_rows |-> <<>>, it |-> m.it]
    ELSE [ok |-> TRUE, plane_rows |-> plane_rows, it |-> m.it]

AfterPlanes(t, masking) ==
    IF ~t.ok THEN [ok |-> FALSE, plane_rows |-> <<>>, it |-> t.it]
    ELSE IF masking = "HasMask" THEN AfterMask(t.rows, RowIterNext(t.it))
    ELSE [ok |-> TRUE, plane_rows |-> t.rows, it |-> t.it]

\* The plane rows of one image row, and the mask row when the masking is
\* HasMask; a missing row is IlbmError::NoData.
AssembleRow_NoMaskRow(it, planes, masking) ==
    AfterPlanes(TakeRows(it, planes, <<>>), "NoMask")

AssembleRow(it, planes, masking) ==
    AfterPlanes(TakeRows(it, planes, <<>>), masking)

\* The resolver the display mode selects for a row.
ResolveRow_HalfbriteFirst(row, mode, planes, colors, pixels, overflow_checks) ==
    IF is_halfbrite(mode)
    THEN push_row_bytes_halfbrite(row, colors, pixels)
    ELSE IF is_ham(mode)
    THEN push_row_bytes_ham(row, planes, colors, pixels, overflow_checks)
    ELSE push_row_bytes(row, colors, pixels)

ResolveRow(row, mode, planes, colors, pixels, overflow_checks) ==
    IF is_ham(mode)
    THEN push_row_bytes_ham(row, planes, colors, pixels, overflow_checks)
    ELSE IF is_halfbrite(mode)
    THEN push_row_bytes_halfbrite(row, colors, pixels)
    ELSE push_row_bytes(row, colors, pixels)

\* assert_eq!(pixels.len(), 3 * width * height); image.pixels = pixels
BodyDone(pixels, image) ==
    IF Len(pixels) # 3 * image.size[1] * image.size[2]
    THEN [res |-> Panic("assert_eq pixels.len()"), pixels |-> pixels]
    ELSE [res |-> Res("Ok"), pixels |-> pixels]

\* for _row in 0..height of read_body_with_cmap: the row is assembled (a),
\* resolved (p), and the loop goes on.
RECURSIVE RowsWithCmap(_, _, _, _, _, _, _)
RECURSIVE RowAssembled(_, _, _, _, _, _, _)
RECURSIVE RowResolved(_, _, _, _, _, _, _)
RowResolved(p, it, rows_left, mode, colors, image, overflow_checks) ==
    IF p.res.kind # "Ok" THEN p
    ELSE RowsWithCmap(it, rows_left - 1, p.pixels, mode, colors, image,
                      overflow_checks)

RowAssembled(a, rows_left, pixels, mode, colors, image, overflow_checks) ==
    IF ~a.ok THEN [res |-> Res("NoData"), pixels |-> pixels]
    ELSE RowResolved(ResolveRow(RowU8(a.plane_rows, image.size[1]), mode,
                                image.planes, colors, pixels, overflow_checks),
                     a.it, rows_left, mode, colors, image, overflow_checks)

RowsWithCmap(it, rows_left, pixels, mode, colors, image, overflow_checks) ==
    IF rows_left = 0 THEN BodyDone(pixels, image)
    ELSE RowAssembled(AssembleRow(it, image.planes, image.masking), rows_left,
                      pixels, mode, colors, image, overflow_checks)

read_body_with_cmap(data, mode, colors, image, overflow_checks) ==
    IF image.planes > 8 THEN [res |-> Res("NotSupported"), pixels |-> <<>>]
    ELSE RowsWithCmap(RowIterNew(data, row_stride(image.size[1]), image.compression),
                      image.size[2], <<>>, mode, colors, image, overflow_checks)

\* Resolve without colour map: rgb[3], rgb[2], rgb[1] of every value.
RECURSIVE PushDeep_TopBytes(_, _)
PushDeep_TopBytes(row, pixels) ==
    IF row = <<>> THEN pixels
    ELSE PushDeep_TopBytes(Tail(row),
                           pixels \o <<Head(row)[0], Head(row)[1], Head(row)[2]>>)

RECURSIVE PushDeep(_, _)
PushDeep(row, pixels) ==
    IF row = <<>> THEN pixels
    ELSE PushDeep(Tail(row), pixels \o <<Head(row)[3], Head(row)[2], Head(row)[1]>>)

\* for _row in 0..height of read_body_no_map.
RECURSIVE RowsNoMap(_, _, _, _)
RECURSIVE RowAssembledNoMap(_, _, _, _)
RowAssembledNoMap(a, rows_left, pixels, image) ==
    IF ~a.ok THEN [res |-> Res("NoData"), pixels |-> pixels]
    ELSE RowsNoMap(a.it, rows_left - 1,
                   PushDeep(RowU32Bytes(a.plane_rows, image.size[1]), pixels),
                   image)

RowsNoMap(it, rows_left, pixels, image) ==
    IF rows_left = 0 THEN BodyDone(pixels, image)
    ELSE RowAssembledNoMap(AssembleRow(it, image.planes, image.masking),
                           rows_left, pixels, image)

read_body_no_map(data, image) ==
    IF image.planes > 32 THEN [res |-> Res("NotSupported"), pixels |-> <<>>]
    ELSE RowsNoMap(RowIterNew(data, row_stride(image.size[1]), image.compression),
                   image.size[2], <<>>, image)

read_body(data, mode, map, image, overflow_checks) ==
    IF map.some
    THEN read_body_with_cmap(data, mode, map.colors, image, overflow_checks)
    ELSE read_body_no_map(data, image)

\* The page scaling loop: every RGB triple twice.
RECURSIVE DoublePixels(_)
DoublePixels(old) ==
    IF Len(old) < 3 THEN <<>>
    ELSE SubSeq(old, 1, 3) \o SubSeq(old, 1, 3) \o DoublePixels(SubSeq(old, 4, Len(old)))

\* if options.page_scale { if page width < page height { ... } }
PageScale_KeepsWidth(image, options) ==
    IF /\ options.page_scale
       /\ UsizeOfI16Less(image.page_size[1], image.page_size[2])
    THEN [image EXCEPT !.pixels = DoublePixels(image.pixels)]
    ELSE image

PageScale(image, options) ==
    IF /\ options.page_scale
       /\ UsizeOfI16Less(image.page_size[1], image.page_size[2])
    THEN [image EXCEPT !.pixels = DoublePixels(image.pixels),
                       !.size = <<2 * image.size[1], image.size[2]>>]
    ELSE image

\* read_body(...)? and what follows it.
BodyRead(body, image, options) ==
    IF body.res.kind # "Ok" THEN [res |-> body.res, image |-> image]
    ELSE [res |-> Res("Ok"),
          image |-> PageScale([image EXCEPT !.pixels = body.pixels], options)]

\* The half-brite plane test, then read_body when pixels are asked for.
BodyWithMode_NoPlaneTest(data, image, map, options, overflow_checks) ==
    BodyRead(IF options.read_pixels
             THEN read_body(data, image.display_mode, map, image, overflow_checks)
             ELSE [res |-> Res("Ok"), pixels |-> image.pixels],
             image, options)

BodyWithMode(data, image, map, options, overflow_checks) ==
    IF is_halfbrite(image.display_mode) /\ image.planes # 6
    THEN [res |-> Res("NotSupported"), image |-> image]
    ELSE BodyRead(IF options.read_pixels
                  THEN read_body(data, image.display_mode, map, image,
                                 overflow_checks)
                  ELSE [res |-> Res("Ok"), pixels |-> image.pixels],
                  image, options)

\* The BODY arm of read_file once the header test has passed: the HAM6
\* repair, then the rest.
BodyAfterHeader_IgnoresCamg(data, image, map, got_camg, options, overflow_checks) ==
    BodyWithMode(data,
                 IF image.planes = 6 /\ image.map_size = 16
                 THEN [image EXCEPT !.display_mode = DisplayMode_ham]
                 ELSE image,
                 map, options, overflow_checks)

BodyAfterHeader(data, image, map, got_camg, options, overflow_checks) ==
    BodyWithMode(data,
                 IF ~got_camg /\ image.planes = 6 /\ image.map_size = 16
                 THEN [image EXCEPT !.display_mode = DisplayMode_ham]
                 ELSE image,
                 map, options, overflow_checks)

\* The BODY arm of read_file.
BodyArm_NoHeaderTest(data, image, map, got_header, got_camg, options, overflow_checks) ==
    BodyAfterHeader(data, image, map, got_camg, options, overflow_checks)

BodyArm(data, image, map, got_header, got_camg, options, overflow_checks) ==
    IF ~got_header THEN [res |-> Res("NoHeader"), image |-> image]
    ELSE BodyAfterHeader(data, image, map, got_camg, options, overflow_checks)

(***************************************************************************)
(* Encoding chunks into a stream (the inverse the reader is checked        *)
(* against): tag, 4-byte big-endian length, payload, and one zero padding  *)
(* byte after an odd length.                                               *)
(***************************************************************************)
BeU32(n) == <<(n \div 16777216) % 256, (n \div 65536) % 256,
              (n \div 256) % 256, n % 256>>

PadLen(chunk) == Len(chunk.data) % 2

EncodeChunk(chunk) ==
    chunk.ck_id \o BeU32(Len(chunk.data)) \o chunk.data
        \o (IF PadLen(chunk) = 1 THEN <<0>> ELSE <<>>)

RECURSIVE Encode(_)
Encode(chunks) ==
    IF chunks = <<>> THEN <<>>
    ELSE EncodeChunk(Head(chunks)) \o Encode(Tail(chunks))

\* Payloads of the reader harness, told apart by their bytes.
Payload(len) == [i \in 1..len |-> 10 * len + i]
PayloadLens == {0, 1, 2}
LeafTags == {BODY, CMAP}
LeafChunks == {[ck_id |-> t, data |-> Payload(l)] : t \in LeafTags, l \in PayloadLens}

(***************************************************************************)
(* Files for read_file: headers, colour maps and bodies built from a few   *)
(* parameters and encoded into bytes.                                      *)
(***************************************************************************)
Chunk(tag, data) == [ck_id |-> tag, data |-> data]

BeU16(n) == <<(n \div 256) % 256, n % 256>>
BeI16(v) == BeU16(IF v < 0 THEN v + 65536 ELSE v)

\* The 20-byte BMHD layout.
HeaderBytes(w, h, planes, masking, compression, pw, ph) ==
    BeU16(w) \o BeU16(h) \o <<0, 0, 0, 0>> \o <<planes, masking, compression, 0>>
        \o <<0, 0>> \o <<1, 1>> \o BeI16(pw) \o BeI16(ph)

\* A colour map of n entries, none of them a legacy 4-bit entry.
CmapBytes(n) ==
    [k \in 1..(3 * n) |->
        LET i == (k - 1) \div 3
            c == (k - 1) % 3
        IN  IF c = 0 THEN i + 1 ELSE IF c = 1 THEN 2 * i + 1 ELSE 255 - i]

\* The bytes plane rows are filled with.
RowPattern == <<0, 128, 192, 64, 255>>

PlaneRowBytes(stride, seed, i) ==
    [j \in 1..stride |-> RowPattern[((seed + i + j) % Len(RowPattern)) + 1]]

\* One plane row in the body: as it is, or run-length encoded as a literal
\* run (a replicate run when it is two equal bytes).
EncodeRow(row, compressed) ==
    IF ~compressed THEN row
    ELSE IF Len(row) = 2 /\ row[1] = row[2] THEN <<255, row[1]>>
    ELSE <<Len(row) - 1>> \o row

RECURSIVE BodyBytes(_, _, _, _, _)
BodyBytes(stride, compressed, seed, i, n) ==
    IF i >= n THEN <<>>
    ELSE EncodeRow(PlaneRowBytes(stride, seed, i), compressed)
            \o BodyBytes(stride, compressed, seed, i + 1, n)

IlbmForm(subs) == Chunk(FORM, ILBM \o Encode(subs))

BMHD_OK == Chunk(BMHD, HeaderBytes(1, 1, 1, 0, 0, 1, 1))
BMHD_W0 == Chunk(BMHD, HeaderBytes(0, 1, 1, 0, 0, 1, 1))
BMHD_H0 == Chunk(BMHD, HeaderBytes(1, 0, 1, 0, 0, 1, 1))
BMHD_P0 == Chunk(BMHD, HeaderBytes(1, 1, 0, 0, 0, 1, 1))
BMHD_W0P0 == Chunk(BMHD, HeaderBytes(0, 1, 0, 0, 0, 1, 1))
BMHD_SHORT == Chunk(BMHD, <<0, 1, 0, 1>>)
CMAP_2 == Chunk(CMAP, CmapBytes(2))
CAMG_SHORT == Chunk(CAMG, <<0, 0, 8>>)
DPI_72 == Chunk(DPI_, <<0, 72, 0, 90>>)
BODY_1 == Chunk(BODY, <<128, 0>>)
BMHD_PACKED == Chunk(BMHD, HeaderBytes(1, 1, 1, 0, 1, 1, 1))
BODY_OVER == Chunk(BODY, <<2, 128, 0, 64>>)
ANNO_ODD == Chunk(ANNO, <<33>>)
JUNK == Chunk(ANNO, <<34, 35, 36>>)
FORM_0 == Chunk(FORM, <<>>)
FORM_3 == Chunk(FORM, <<73, 76, 66>>)
FORM_OTHER == Chunk(FORM, SVX8 \o Encode(<<BMHD_OK, BODY_1>>))

\* Family 1: the top-level structure.  A sequence of items; an "ILBM" item
\* opens a FORM ILBM container that holds the items after it up to the next
\* top-level item; BMHD, BODY and ANNO items outside a container are
\* top-level chunks of their own.
TopItems == {"JUNK", "FORM_0", "FORM_3", "FORM_OTHER", "ILBM"}
SubItems == {"BMHD", "BODY", "ANNO"}

ItemChunk(item) ==
    CASE item = "JUNK" -> JUNK
      [] item = "FORM_0" -> FORM_0
      [] item = "FORM_3" -> FORM_3
      [] item = "FORM_OTHER" -> FORM_OTHER
      [] item = "BMHD" -> BMHD_OK
      [] item = "BODY" -> BODY_1
      [] item = "ANNO" -> ANNO_ODD

\* The sub-chunks of the container opened just before position i.
RECURSIVE ContainerItems(_, _)
ContainerItems(items, i) ==
    IF i > Len(items) \/ items[i] \in TopItems THEN <<>>
    ELSE <<ItemChunk(items[i])>> \o ContainerItems(items, i + 1)

RECURSIVE TopChunks(_, _)
TopChunks(items, i) ==
    IF i > Len(items) THEN <<>>
    ELSE IF items[i] = "ILBM"
    THEN LET subs == ContainerItems(items, i + 1)
         IN  <<IlbmForm(subs)>> \o TopChunks(items, i + 1 + Len(subs))
    ELSE <<ItemChunk(items[i])>> \o TopChunks(items, i + 1)

StructureFiles ==
    {TopChunks(items, 1) : items \in SeqsUpTo(TopItems \cup SubItems, MaxItems)}

\* Family 2: one container whose sub-chunks come from a menu of well-formed
\* and malformed chunks.
SubMenu == {BMHD_OK, BMHD_W0, BMHD_H0, BMHD_P0, BMHD_W0P0, BMHD_SHORT,
            BMHD_PACKED, CMAP_2, CAMG_SHORT, DPI_72, BODY_1, BODY_OVER, ANNO_ODD}

ContainerFiles == {<<IlbmForm(subs)>> : subs \in SeqsUpTo(SubMenu, MaxItems - 1)}

\* Family 3: one container BMHD [CMAP] [CAMG] BODY with a body of plane rows.
\* The page_scale option with the page width and page height of the header.
PageChoices == {<<FALSE, 1, 2>>, <<TRUE, 1, 2>>, <<TRUE, 2, 1>>,
                <<TRUE, 1, -1>>, <<TRUE, -1, 1>>}
PlaneChoices == {1, 2, 6}
CmapChoices == {0, 2, 16, 32}           \* 0: no CMAP chunk
CamgChoices == {-1, 0, HAM_BIT, HALFBRITE_BIT, HAM_BIT + HALFBRITE_BIT}  \* -1: no CAMG chunk

\* Family 8: one container BMHD, up to MaxOrder chunks that set or leave
\* the colour map, the display mode and the dpi, then a BODY of one image
\* row of 2 pixels in 2 planes, with the pixel codes 1 and 2.
MaxOrder == 3
CMAP_4 == Chunk(CMAP, <<9, 8, 7, 19, 18, 17, 29, 28, 27, 39, 38, 37>>)
CAMG_0 == Chunk(CAMG, BeU32(0))
CAMG_HAM == Chunk(CAMG, BeU32(HAM_BIT))
DPI_300 == Chunk(DPI_, <<1, 44, 1, 45>>)
OrderMenu == {CMAP_2, CMAP_4, CAMG_0, CAMG_HAM, ANNO_ODD, DPI_72, DPI_300}
OrderFile(mid) ==
    <<IlbmForm(<<Chunk(BMHD, HeaderBytes(2, 1, 2, 0, 0, 1, 1))>> \o mid
               \o <<Chunk(BODY, <<128, 0, 64, 0>>)>>)>>
OrderFiles == {OrderFile(mid) : mid \in SeqsUpTo(OrderMenu, MaxOrder)}

\* Family 9: two containers, the first with up to MaxPrior chunks and no
\* BODY, the second with a BODY after at most one other chunk.
MaxPrior == 2
PriorMenu == {BMHD_OK, CMAP_2, CAMG_HAM, DPI_72, ANNO_ODD}
LaterMenu == {BMHD_OK, CMAP_4, ANNO_ODD}
TwoContainerFiles ==
    {<<IlbmForm(first), IlbmForm(second \o <<BODY_1>>)>> :
        first \in SeqsUpTo(PriorMenu, MaxPrior), second \in SeqsUpTo(LaterMenu, 1)}

\* Family 7: the masking values of the header other than 0 and 1.
MaskChoices == {2, 3, 4}
MaskCmaps == {0, 16}

ImageFile(w, h, planes, masking, compression, pw, ph, cmap, camg, seed, missing) ==
    LET stride == row_stride(w)
        nrows == h * (planes + (IF masking = 1 THEN 1 ELSE 0)) - missing
    IN  <<IlbmForm(
            <<Chunk(BMHD, HeaderBytes(w, h, planes, masking, compression, pw, ph))>>
            \o (IF cmap = 0 THEN <<>> ELSE <<Chunk(CMAP, CmapBytes(cmap))>>)
            \o (IF camg < 0 THEN <<>> ELSE <<Chunk(CAMG, BeU32(camg))>>)
            \o <<Chunk(BODY, BodyBytes(stride, compression # 0, seed, 0, nrows))>>)>>

\* Family 4: one container holding one CMAP chunk, its payload drawn from
\* bytes with a zero and with a nonzero low nibble.
MaxCmapBytes == 6
CmapByteChoices == {0, 32, 161, 240}
CmapFiles ==
    {<<IlbmForm(<<Chunk(CMAP, data)>>)>> :
        data \in SeqsUpTo(CmapByteChoices, MaxCmapBytes)}

\* Family 5: deep images, one container BMHD [CAMG] BODY with no CMAP and
\* more than 8 planes (33 is one more than read_body_no_map takes).
DeepPlaneChoices == {9, 17, 25, 32, 33}
DeepCamgChoices == {-1, HAM_BIT}
DeepSeeds == {0, 1, 2}

\* Family 6: images of 2 x 2 pixels given by their pixel codes a and b, rows
\* (a, b) and (b, a), stored plane by plane; the padding bits of every plane
\* row are set.  A CMAP chunk is always present, with 0, 2 or 32 entries.
CodedPlanes == 2..8
CodedCmaps == {0, 2, 32}
CodedModes == {HAM_BIT, HALFBRITE_BIT}
PixelCodes(planes) ==
    {sel * (2 ^ (planes - 2)) + low :
        sel \in 0..3,
        low \in {0, 1, (2 ^ (planes - 2)) - 1} \cap (0..((2 ^ (planes - 2)) - 1))}
CodeBit(v, p) == (v \div (2 ^ p)) % 2
PlanarRow(codes, p) ==
    <<CodeBit(codes[1], p) * 128 + CodeBit(codes[2], p) * 64 + 63, 255>>
RECURSIVE PlanarLine(_, _, _)
PlanarLine(codes, p, planes) ==
    IF p >= planes THEN <<>>
    ELSE PlanarRow(codes, p) \o PlanarLine(codes, p + 1, planes)
CodedFile(planes, cmap, camg, a, b) ==
    <<IlbmForm(<<Chunk(BMHD, HeaderBytes(2, 2, planes, 0, 0, 1, 1)),
                 Chunk(CMAP, CmapBytes(cmap)),
                 Chunk(CAMG, BeU32(camg)),
                 Chunk(BODY, PlanarLine(<<a, b>>, 0, planes)
                                \o PlanarLine(<<b, a>>, 0, planes))>>)>>

(***************************************************************************)
(* read_file, one step per chunk of the two for loops.                     *)
(***************************************************************************)
ReadIdle ==
    /\ f_desc = <<>>
    /\ f_bytes = <<>>
    /\ f_opts = [read_pixels |-> FALSE, page_scale |-> FALSE]
    /\ f_pc = "done"
    /\ f_top = NoReader
    /\ f_tops = <<>>
    /\ f_subr = NoReader
    /\ f_sub_chunk = NoChunk
    /\ f_image = NoImageYet
    /\ f_map = NoMap
    /\ f_got_header = FALSE
    /\ f_got_camg = FALSE
    /\ f_result = Res("Idle")

\* let all_bytes = std::fs::read(path)?; let reader = IffReader::new(...)
ReadStart(desc, options) ==
    /\ f_desc = desc
    /\ f_bytes = Encode(desc)
    /\ f_opts = options
    /\ f_pc = "top"
    /\ f_top = IffReaderNew(f_bytes)
    /\ f_tops = <<>>
    /\ f_subr = NoReader
    /\ f_sub_chunk = NoChunk
    /\ f_image = NoImageYet
    /\ f_map = NoMap
    /\ f_got_header = FALSE
    /\ f_got_camg = FALSE
    /\ f_result = Res("Running")

InitRead ==
    /\ \/ \E desc \in StructureFiles :
             ReadStart(desc, [read_pixels |-> TRUE, page_scale |-> FALSE])
       \/ \E desc \in ContainerFiles :
             ReadStart(desc, [read_pixels |-> TRUE, page_scale |-> FALSE])
       \/ \E desc \in CmapFiles :
             ReadStart(desc, [read_pixels |-> TRUE, page_scale |-> FALSE])
       \/ \E planes \in CodedPlanes, cmap \in CodedCmaps, camg \in CodedModes :
             \E a \in PixelCodes(planes), b \in PixelCodes(planes) :
                /\ camg = HALFBRITE_BIT => planes = 6
                /\ ReadStart(CodedFile(planes, cmap, camg, a, b),
                             [read_pixels |-> TRUE, page_scale |-> FALSE])
       \/ \E desc \in OrderFiles :
             ReadStart(desc, [read_pixels |-> TRUE, page_scale |-> FALSE])
       \/ \E desc \in TwoContainerFiles :
             ReadStart(desc, [read_pixels |-> TRUE, page_scale |-> FALSE])
       \/ \E h \in 1..MaxH, masking \in MaskChoices, cmap \in MaskCmaps,
             seed \in {0, 1}, missing \in {0, 1} :
             ReadStart(ImageFile(MaxW, h, 2, masking, 0, 1, 1, cmap, -1,
                                 seed, missing),
                       [read_pixels |-> TRUE, page_scale |-> FALSE])
       \/ \E w \in 1..MaxW, h \in 1..MaxH, planes \in DeepPlaneChoices,
             compression \in {0, 1}, camg \in DeepCamgChoices,
             seed \in DeepSeeds :
             ReadStart(ImageFile(w, h, planes, 0, compression, 1, 1, 0, camg,
                                 seed, 0),
                       [read_pixels |-> TRUE, page_scale |-> FALSE])
       \/ \E w \in 1..MaxW, h \in 1..MaxH, planes \in PlaneChoices,
             masking \in {0, 1}, compression \in {0, 1},
             cmap \in CmapChoices, camg \in CamgChoices,
             seed \in {0, 1}, missing \in {0, 1},
             read_pixels \in BOOLEAN,
             page \in PageChoices :
             ReadStart(ImageFile(w, h, planes, masking, compression,
                                 page[2], page[3], cmap, camg, seed, missing),
                       [read_pixels |-> read_pixels, page_scale |-> page[1]])
    /\ UnpackIdle
    /\ ReaderIdle

\* What reader.next() returns to each of the two loops.
TopResult == IffNext(f_top)
SubResult == IffNext(f_subr)

Finish(result) ==
    /\ f_result' = result
    /\ f_pc' = "done"

\* The top-level sequence has ended: Err(IlbmError::NoImage).
TopEnd ==
    /\ f_pc = "top"
    /\ ~TopResult.some
    /\ Finish(Res("NoImage"))
    /\ f_top' = TopResult.reader
    /\ UNCHANGED <<f_desc, f_bytes, f_opts, f_tops, f_subr, f_sub_chunk, f_image,
                   f_map, f_got_header, f_got_camg>>
    /\ UNCHANGED <<u_vars, i_vars>>

\* A chunk that is no FORM, or a FORM of another type: on to the next chunk.
TopSkip_Stops ==
    /\ f_pc = "top"
    /\ TopResult.some
    /\ LET chunk == TopResult.chunk
       IN  \/ ~is_form(chunk)
           \/ /\ is_form(chunk)
              /\ ~form_type(chunk).panic
              /\ form_type(chunk).id # ILBM
    /\ Finish(Res("NoImage"))
    /\ f_top' = TopResult.reader
    /\ f_tops' = Append(f_tops, TopResult.chunk)
    /\ UNCHANGED <<f_desc, f_bytes, f_opts, f_subr, f_sub_chunk,
                   f_image, f_map, f_got_header, f_got_camg>>
    /\ UNCHANGED <<u_vars, i_vars>>

TopSkip ==
    /\ f_pc = "top"
    /\ TopResult.some
    /\ LET chunk == TopResult.chunk
       IN  \/ ~is_form(chunk)
           \/ /\ is_form(chunk)
              /\ ~form_type(chunk).panic
              /\ form_type(chunk).id # ILBM
    /\ f_top' = TopResult.reader
    /\ f_tops' = Append(f_tops, TopResult.chunk)
    /\ UNCHANGED <<f_desc, f_bytes, f_opts, f_pc, f_subr, f_sub_chunk,
                   f_image, f_map, f_got_header, f_got_camg, f_result>>
    /\ UNCHANGED <<u_vars, i_vars>>

\* chunk.form_type() on a FORM whose payload has fewer than 4 bytes.
TopFormTypePanic ==
    /\ f_pc = "top"
    /\ TopResult.some
    /\ is_form(TopResult.chunk)
    /\ form_type(TopResult.chunk).panic
    /\ Finish(Panic("Ouch, where is my form type!"))
    /\ f_top' = TopResult.reader
    /\ f_tops' = Append(f_tops, TopResult.chunk)
    /\ UNCHANGED <<f_desc, f_bytes, f_opts, f_subr, f_sub_chunk, f_image,
                   f_map, f_got_header, f_got_camg>>
    /\ UNCHANGED <<u_vars, i_vars>>

\* A FORM ILBM: a fresh image, map and flags, and the loop over sub_chunks().
\* An entry into a container that keeps the image, the map and the flags
\* of the container before it.
TopEnterIlbm_KeepsState ==
    /\ f_pc = "top"
    /\ TopResult.some
    /\ is_form(TopResult.chunk)
    /\ ~form_type(TopResult.chunk).panic
    /\ form_type(TopResult.chunk).id = ILBM
    /\ f_top' = TopResult.reader
    /\ f_tops' = Append(f_tops, TopResult.chunk)
    /\ f_image' = IF f_image = NoImageYet
                  THEN DefaultImage(form_type(TopResult.chunk).id)
                  ELSE [f_image EXCEPT !.chunk_types = <<>>]
    /\ f_subr' = sub_chunks(TopResult.chunk).reader
    /\ f_sub_chunk' = NoChunk
    /\ f_pc' = "sub"
    /\ UNCHANGED <<f_desc, f_bytes, f_opts, f_result, f_map, f_got_header, f_got_camg>>
    /\ UNCHANGED <<u_vars, i_vars>>

TopEnterIlbm ==
    /\ f_pc = "top"
    /\ TopResult.some
    /\ is_form(TopResult.chunk)
    /\ ~form_type(TopResult.chunk).panic
    /\ form_type(TopResult.chunk).id = ILBM
    /\ f_top' = TopResult.reader
    /\ f_tops' = Append(f_tops, TopResult.chunk)
    /\ f_image' = DefaultImage(form_type(TopResult.chunk).id)
    /\ f_map' = NoMap
    /\ f_got_header' = FALSE
    /\ f_got_camg' = FALSE
    /\ f_subr' = sub_chunks(TopResult.chunk).reader
    /\ f_sub_chunk' = NoChunk
    /\ f_pc' = "sub"
    /\ UNCHANGED <<f_desc, f_bytes, f_opts, f_result>>
    /\ UNCHANGED <<u_vars, i_vars>>

\* The sub-chunks of the container have ended: back to the top-level loop.
SubEnd ==
    /\ f_pc = "sub"
    /\ ~SubResult.some
    /\ f_subr' = SubResult.reader
    /\ f_pc' = "top"
    /\ UNCHANGED <<f_desc, f_bytes, f_opts, f_top, f_tops, f_sub_chunk, f_image,
                   f_map, f_got_header, f_got_camg, f_result>>
    /\ UNCHANGED <<u_vars, i_vars>>

\* image.chunk_types.push(sub_chunk.id())
Pushed(image, chunk) ==
    [image EXCEPT !.chunk_types = Append(image.chunk_types, chunk.ck_id)]

\* The start of every arm: the sub-chunk with tag id has been yielded.
SubChunkIs(id) ==
    /\ f_pc = "sub"
    /\ SubResult.some
    /\ SubResult.chunk.ck_id = id
    /\ f_subr' = SubResult.reader
    /\ f_sub_chunk' = SubResult.chunk

SubBMHD ==
    /\ SubChunkIs(BMHD)
    /\ LET r == read_bitmap_header(SubResult.chunk.data,
                                   Pushed(f_image, SubResult.chunk))
       IN  /\ f_image' = r.image
           /\ IF r.res.kind = "Ok"
              THEN /\ f_got_header' = TRUE
                   /\ UNCHANGED <<f_pc, f_result>>
              ELSE /\ Finish(r.res)
                   /\ UNCHANGED f_got_header
    /\ UNCHANGED <<f_desc, f_bytes, f_opts, f_top, f_tops, f_map, f_got_camg>>
    /\ UNCHANGED <<u_vars, i_vars>>

\* A CMAP arm that keeps the map of an earlier CMAP chunk.
SubCMAP_KeepsFirst ==
    /\ SubChunkIs(CMAP)
    /\ LET colors == read_color_map(SubResult.chunk.data)
       IN  IF f_map.some
           THEN /\ f_image' = Pushed(f_image, SubResult.chunk)
                /\ UNCHANGED f_map
           ELSE /\ f_image' = [Pushed(f_image, SubResult.chunk) EXCEPT
                                 !.map_size = Len(colors)]
                /\ f_map' = [some |-> TRUE, colors |-> colors]
    /\ UNCHANGED <<f_desc, f_bytes, f_opts, f_pc, f_top, f_tops, f_got_header,
                   f_got_camg, f_result>>
    /\ UNCHANGED <<u_vars, i_vars>>

SubCMAP ==
    /\ SubChunkIs(CMAP)
    /\ LET colors == read_color_map(SubResult.chunk.data)
       IN  /\ f_image' = [Pushed(f_image, SubResult.chunk) EXCEPT
                            !.map_size = Len(colors)]
           /\ f_map' = [some |-> TRUE, colors |-> colors]
    /\ UNCHANGED <<f_desc, f_bytes, f_opts, f_pc, f_top, f_tops, f_got_header,
                   f_got_camg, f_result>>
    /\ UNCHANGED <<u_vars, i_vars>>

SubCAMG ==
    /\ SubChunkIs(CAMG)
    /\ LET r == read_display_mode(SubResult.chunk.data)
       IN  IF r.res.kind = "Ok"
           THEN /\ f_got_camg' = TRUE
                /\ f_image' = [Pushed(f_image, SubResult.chunk) EXCEPT
                                 !.display_mode = r.mode]
                /\ UNCHANGED <<f_pc, f_result>>
           ELSE /\ Finish(r.res)
                /\ f_image' = Pushed(f_image, SubResult.chunk)
                /\ UNCHANGED f_got_camg
    /\ UNCHANGED <<f_desc, f_bytes, f_opts, f_top, f_tops, f_map, f_got_header>>
    /\ UNCHANGED <<u_vars, i_vars>>

SubDPI ==
    /\ SubChunkIs(DPI_)
    /\ LET r == read_dpi(SubResult.chunk.data)
       IN  IF r.res.kind = "Ok"
           THEN /\ f_image' = [Pushed(f_image, SubResult.chunk) EXCEPT !.dpi = r.dpi]
                /\ UNCHANGED <<f_pc, f_result>>
           ELSE /\ Finish(r.res)
                /\ f_image' = Pushed(f_image, SubResult.chunk)
    /\ UNCHANGED <<f_desc, f_bytes, f_opts, f_top, f_tops, f_map, f_got_header,
                   f_got_camg>>
    /\ UNCHANGED <<u_vars, i_vars>>

\* The BODY arm always returns.  Whether the build checks arithmetic
\* overflow is not fixed by the source.
SubBODY ==
    /\ SubChunkIs(BODY)
    /\ \E overflow_checks \in BOOLEAN :
          \E r \in {BodyArm(SubResult.chunk.data, Pushed(f_image, SubResult.chunk),
                            f_map, f_got_header, f_got_camg, f_opts,
                            overflow_checks)} :
              /\ f_image' = r.image
              /\ Finish(r.res)
    /\ UNCHANGED <<f_desc, f_bytes, f_opts, f_top, f_tops, f_map, f_got_header,
                   f_got_camg>>
    /\ UNCHANGED <<u_vars, i_vars>>

\* Any other tag: recorded and skipped.
SubOther ==
    /\ f_pc = "sub"
    /\ SubResult.some
    /\ SubResult.chunk.ck_id \notin {BMHD, CMAP, CAMG, DPI_, BODY}
    /\ f_subr' = SubResult.reader
    /\ f_sub_chunk' = SubResult.chunk
    /\ f_image' = Pushed(f_image, SubResult.chunk)
    /\ UNCHANGED <<f_desc, f_bytes, f_opts, f_pc, f_top, f_tops, f_map,
                   f_got_header, f_got_camg, f_result>>
    /\ UNCHANGED <<u_vars, i_vars>>

NextRead ==
    \/ TopEnd \/ TopSkip \/ TopFormTypePanic \/ TopEnterIlbm
    \/ SubEnd \/ SubBMHD \/ SubCMAP \/ SubCAMG \/ SubDPI \/ SubBODY \/ SubOther

SpecRead == InitRead /\ [][NextRead]_vars

(***************************************************************************)
(* The reader on its own: a sequence of chunks is encoded, cut to any      *)
(* length, and given to a top-level reader directly or as the content of   *)
(* one FORM ILBM chunk read through sub_chunks().                          *)
(***************************************************************************)
InitIff ==
    /\ i_leaves \in SeqsUpTo(LeafChunks, MaxChunks)
    /\ i_wrapped \in BOOLEAN
    /\ i_kept \in 0..Len(Encode(i_leaves))
    /\ LET body == SubSeq(Encode(i_leaves), 1, i_kept)
       IN  i_stream = IF i_wrapped
                      THEN Encode(<<[ck_id |-> FORM, data |-> ILBM \o body]>>)
                      ELSE body
    /\ i_reader = IffReaderNew(i_stream)
    /\ i_chunks = <<>>
    /\ i_done = FALSE
    /\ i_sub = NoReader
    /\ i_subchunks = <<>>
    /\ i_subdone = FALSE
    /\ UnpackIdle
    /\ ReadIdle

\* for chunk in reader: one call of next on the top-level reader.
TopNext ==
    /\ ~i_done
    /\ LET r == IffNext(i_reader)
       IN  /\ i_reader' = r.reader
           /\ i_chunks' = IF r.some THEN Append(i_chunks, r.chunk) ELSE i_chunks
           /\ i_done' = ~r.some
    /\ UNCHANGED <<i_leaves, i_wrapped, i_kept, i_stream, i_sub, i_subchunks, i_subdone>>
    /\ UNCHANGED <<u_vars, f_vars>>

\* chunk.sub_chunks() on a yielded container whose payload holds a form type.
SubOpen ==
    /\ i_done /\ i_sub = NoReader /\ ~i_subdone
    /\ \E j \in 1..Len(i_chunks) :
          /\ is_form(i_chunks[j])
          /\ ~form_type(i_chunks[j]).panic
          /\ i_sub' = sub_chunks(i_chunks[j]).reader
    /\ UNCHANGED <<i_leaves, i_wrapped, i_kept, i_stream, i_reader, i_chunks, i_done,
                   i_subchunks, i_subdone>>
    /\ UNCHANGED <<u_vars, f_vars>>

\* for sub_chunk in chunk.sub_chunks(): one call of next on the nested reader.
SubNext ==
    /\ i_sub # NoReader /\ ~i_subdone
    /\ LET r == IffNext(i_sub)
       IN  /\ i_sub' = r.reader
           /\ i_subchunks' = IF r.some THEN Append(i_subchunks, r.chunk)
                             ELSE i_subchunks
           /\ i_subdone' = ~r.some
    /\ UNCHANGED <<i_leaves, i_wrapped, i_kept, i_stream, i_reader, i_chunks, i_done>>
    /\ UNCHANGED <<u_vars, f_vars>>

NextIff == TopNext \/ SubOpen \/ SubNext

SpecIff == InitIff /\ [][NextIff]_vars

(***************************************************************************)
(* The unpacker on its own: every bounded input and target length.         *)
(***************************************************************************)
InitUnpack ==
    /\ u_input \in SeqsUpTo(UnpackBytes, MaxIn)
    /\ u_width \in 0..MaxWidth
    /\ u_res = Pending
    /\ ReaderIdle
    /\ ReadIdle

CallUnpacker ==
    /\ u_res = Pending
    /\ u_res' = unpacker(u_input, u_width)
    /\ UNCHANGED <<u_input, u_width>>
    /\ UNCHANGED <<i_vars, f_vars>>

NextUnpack == CallUnpacker

SpecUnpack == InitUnpack /\ [][NextUnpack]_vars

(***************************************************************************)
(* The reference reading of a compressed stream, group by group: a control *)
(* byte c announces OperandLen(c) operand bytes and RunLen(c) output bytes.*)
(***************************************************************************)
OperandLen(c) == IF c < 128 THEN c + 1 ELSE IF c = 128 THEN 0 ELSE 1
RunLen(c) == IF c < 128 THEN c + 1 ELSE IF c = 128 THEN 0 ELSE 257 - c

\* s is a sequence of complete groups.
RECURSIVE WellFormed(_)
WellFormed(s) ==
    \/ s = <<>>
    \/ /\ Len(s) >= 1 + OperandLen(s[1])
       /\ WellFormed(SubSeq(s, 2 + OperandLen(s[1]), Len(s)))

\* The expansion of a sequence of complete groups.
RECURSIVE Expand(_)
Expand(s) ==
    IF s = <<>> THEN <<>>
    ELSE LET c == s[1]
             after == SubSeq(s, 2 + OperandLen(c), Len(s))
         IN  IF c < 128 THEN SubSeq(s, 2, c + 2) \o Expand(after)
             ELSE IF c = 128 THEN Expand(after)
             ELSE [i \in 1..(257 - c) |-> s[2]] \o Expand(after)

Prefix(s, k) == SubSeq(s, 1, k)
Suffix(s, k) == SubSeq(s, k + 1, Len(s))

\* The groups read while fewer than n bytes are out: the shortest sequence of
\* complete groups at the front of s that expands to n bytes or more.
Consumed(s, n, k) ==
    /\ WellFormed(Prefix(s, k))
    /\ Len(Expand(Prefix(s, k))) >= n
    /\ \A j \in 0..(k - 1) :
          WellFormed(Prefix(s, j)) => Len(Expand(Prefix(s, j))) < n

\* C2: whenever unpacker succeeds on (input, N), the output has exactly N
\* bytes, it is the reference expansion of the groups consumed, and the
\* returned remainder is the input after the last consumed group.
C2_UnpackMatchesReference ==
    u_res.kind = "Ok" =>
        /\ Len(u_res.out) = u_width
        /\ \E k \in 0..Len(u_input) :
              /\ Consumed(u_input, u_width, k)
              /\ u_res.out = Expand(Prefix(u_input, k))
              /\ u_res.rest = Suffix(u_input, k)

\* A success that used a literal run, a replicate run and a no-op.
C2_Witness ==
    /\ u_res.kind = "Ok"
    /\ u_input = <<0, 66, 255, 2>>
    /\ u_width = 3
    /\ u_res.out = <<66, 2, 2>>
    /\ u_res.rest = <<>>

\* Where the group-by-group reading of s towards n output bytes stops, from
\* position p with c bytes out.  "done": c reached n exactly.  "overshoot": a
\* group whose operands are all present carries the output past n.
\* "declared": a control byte announces a run past n but the input ends
\* inside its operands.  "eof": the input ends (at a control byte or inside
\* the operands of a group) and made counts the bytes out by then.
RECURSIVE RefWalk(_, _, _, _)
RefWalk(s, n, p, c) ==
    IF c >= n THEN [v |-> "done", made |-> c]
    ELSE IF p > Len(s) THEN [v |-> "eof", made |-> c]
    ELSE LET ctl == s[p]
             avail == Len(s) - p
         IN  IF avail < OperandLen(ctl)
             THEN [v |-> IF c + RunLen(ctl) > n THEN "declared" ELSE "eof",
                   made |-> IF ctl < 128 THEN c + avail ELSE c]
             ELSE IF c + RunLen(ctl) > n
             THEN [v |-> "overshoot", made |-> c + RunLen(ctl)]
             ELSE RefWalk(s, n, p + 1 + OperandLen(ctl), c + RunLen(ctl))

Walk == RefWalk(u_input, u_width, 1, 0)

\* C3 as stated: whenever a literal or replicate run would carry the output
\* past N, unpacker fails with invalid-data; it never returns more than N bytes.
C3_Original ==
    u_res # Pending =>
        /\ Walk.v \in {"overshoot", "declared"} => u_res.kind = "InvalidData"
        /\ Len(u_res.out) <= u_width

\* C3 amended: whenever a literal or replicate run whose operand bytes are all
\* present carries the output past N, unpacker fails with invalid-data, and
\* that is the only way it does; a run that announces more than N bytes but
\* is cut short by the end of the input fails with insufficient-data instead;
\* unpacker never returns more than N bytes.
C3_OvershootIsInvalidData ==
    u_res # Pending =>
        /\ Walk.v = "overshoot" <=> u_res.kind = "InvalidData"
        /\ Walk.v = "declared" => u_res.kind = "NoData"
        /\ Len(u_res.out) <= u_width

\* A replicate run of 4 bytes towards a target of 3.
C3_Witness ==
    /\ u_res.kind = "InvalidData"
    /\ u_input = <<0, 66, 253, 2>>
    /\ u_width = 3

\* C4: whenever the input is exhausted before N bytes have been produced
\* (the missing byte being a control byte, the operand of a replicate run or
\* a byte inside a literal run), unpacker fails with insufficient-data.
C4_ExhaustedIsNoData ==
    u_res # Pending =>
        (Walk.v \in {"eof", "declared"} /\ Walk.made < u_width
            => u_res.kind = "NoData")

\* The input ends in the middle of a literal run, 2 of 3 bytes out.
C4_Witness ==
    /\ u_res.kind = "NoData"
    /\ u_input = <<2, 66, 0>>
    /\ u_width = 3

(***************************************************************************)
(* The reader against the encoding.                                        *)
(***************************************************************************)
\* The reader the encoded chunks are read through, what it yielded, whether
\* it was started and whether it has returned None.
Rd == IF i_wrapped THEN i_sub ELSE i_reader
Yielded == IF i_wrapped THEN i_subchunks ELSE i_chunks
Started == Rd # NoReader
Finished == IF i_wrapped THEN i_subdone ELSE i_done

\* Where the payload of the j-th encoded chunk ends in the encoding.
PayloadEnd(j) ==
    IF j = 0 THEN 0
    ELSE Len(Encode(SubSeq(i_leaves, 1, j))) - PadLen(i_leaves[j])

\* The encoded chunks whose header and payload lie within the kept bytes.
CompleteCount == Cardinality({j \in 1..Len(i_leaves) : PayloadEnd(j) <= i_kept})

\* C5: for a well-formed encoding, successive next calls of the top-level
\* reader, and of the nested reader sub_chunks() returns, yield exactly the
\* encoded (tag, payload) pairs in order; the padding byte after an odd
\* length is still unread when the chunk is yielded and is consumed by the
\* following call; the nested reader starts right after the sub-type tag.
C5_ReaderRoundTrip ==
    i_kept = Len(Encode(i_leaves)) /\ i_reader # NoReader =>
        /\ Yielded = SubSeq(i_leaves, 1, Len(Yielded))
        /\ Started /\ ~Finished =>
              /\ Rd.pos = PayloadEnd(Len(Yielded))
              /\ Rd.skip = (Len(Yielded) > 0 /\ PadLen(i_leaves[Len(Yielded)]) = 1)
        /\ Finished => Yielded = i_leaves /\ Rd.pos = Len(Rd.data)
        /\ i_wrapped /\ i_done =>
              i_chunks = <<[ck_id |-> FORM, data |-> ILBM \o Encode(i_leaves)]>>
        /\ i_wrapped /\ Started => i_sub.data = Encode(i_leaves)

\* A nested reader that has yielded an odd-length chunk and the chunk after it.
C5_Witness ==
    /\ i_kept = Len(Encode(i_leaves))
    /\ i_wrapped /\ i_subdone
    /\ Len(i_leaves) = 2
    /\ Len(i_leaves[1].data) = 1
    /\ i_subchunks = i_leaves

\* C6: on any short read the reader ends the sequence: what it yields is
\* always a prefix of the encoded chunks with their full payloads, and when
\* it returns None it has yielded exactly the chunks whose header and
\* payload are complete; a cut chunk is never yielded.
C6_ShortReadEndsSequence ==
    i_reader # NoReader =>
        /\ Yielded = SubSeq(i_leaves, 1, Len(Yielded))
        /\ Finished => Len(Yielded) = CompleteCount

\* A stream cut inside its second chunk: one chunk yielded, then None.
C6_Witness ==
    /\ ~i_wrapped /\ i_done
    /\ Len(i_leaves) = 2
    /\ i_kept < PayloadEnd(2)
    /\ i_kept > PayloadEnd(1) + 8
    /\ i_chunks = <<i_leaves[1]>>


(***************************************************************************)
(* read_file: the claims.                                                  *)
(***************************************************************************)
ReadDone == f_pc = "done" /\ f_result.kind # "Idle"

\* C1: whenever read_file returns Ok with read_pixels = true, the pixel
\* buffer of the returned image has length exactly 3 * size.width *
\* size.height for the reported size, with or without a colour map and
\* after page scaling has doubled the width; the assert_eq on pixels.len()
\* never aborts.
C1_PixelBufferLength ==
    /\ ReadDone /\ f_result.kind = "Ok" /\ f_opts.read_pixels =>
          Len(f_image.pixels) = 3 * f_image.size[1] * f_image.size[2]
    /\ f_result # Panic("assert_eq pixels.len()")

\* An Ok result through the colour map whose width page scaling has doubled.
C1_Witness ==
    /\ ReadDone /\ f_result.kind = "Ok"
    /\ f_opts.read_pixels /\ f_opts.page_scale
    /\ f_map.some
    /\ f_image.page_size = <<1, 2>>
    /\ f_image.size = <<2 * MaxW, MaxH>>
    /\ Len(f_image.pixels) = 6 * MaxW * MaxH

\* The header fields as the payload of the BMHD chunk declares them.
HeaderSeen == f_sub_chunk.ck_id = BMHD /\ Len(f_sub_chunk.data) >= 20
DeclaredWidth == 256 * f_sub_chunk.data[1] + f_sub_chunk.data[2]
DeclaredHeight == 256 * f_sub_chunk.data[3] + f_sub_chunk.data[4]
DeclaredPlanes == f_sub_chunk.data[9]
FailedWith(kind) == f_pc = "done" /\ f_result.kind = kind

\* C7 as stated: a header declaring width = 0 or height = 0 always fails
\* with invalid-header and a header declaring planes = 0 always fails with
\* no-planes, as soon as the header chunk is processed.
C7_Original ==
    HeaderSeen =>
        /\ DeclaredWidth = 0 \/ DeclaredHeight = 0 => FailedWith("InvalidHeader")
        /\ DeclaredPlanes = 0 => FailedWith("NoPlanes")

\* C7: a complete header declaring width = 0 or height = 0 fails with
\* invalid-header, whatever its planes; a complete header declaring
\* planes = 0 with a nonzero width and height fails with no-planes; either
\* failure is returned when the header chunk is processed, whatever follows.
C7_HeaderValidation ==
    HeaderSeen =>
        /\ DeclaredWidth = 0 \/ DeclaredHeight = 0 => FailedWith("InvalidHeader")
        /\ DeclaredPlanes = 0 /\ DeclaredWidth # 0 /\ DeclaredHeight # 0 =>
              FailedWith("NoPlanes")

\* A header with planes = 0 and a nonzero size has failed with no-planes
\* while chunks of the container are still unread.
C7_Witness ==
    /\ HeaderSeen
    /\ DeclaredPlanes = 0 /\ DeclaredWidth # 0 /\ DeclaredHeight # 0
    /\ FailedWith("NoPlanes")
    /\ IffNext(f_subr).some

\* The tags pushed in the current container before the chunk just processed.
EarlierTypes == SubSeq(f_image.chunk_types, 1, Len(f_image.chunk_types) - 1)
HeaderEarlier == \E i \in 1..Len(EarlierTypes) : EarlierTypes[i] = BMHD
BodySeen == f_sub_chunk.ck_id = BODY

\* C8: in a container, a BODY reached before any BMHD of that container
\* makes read_file fail with no-header, and a BODY reached after a valid
\* BMHD never gives no-header.
C8_BodyBeforeHeader ==
    BodySeen =>
        /\ ~HeaderEarlier => FailedWith("NoHeader")
        /\ HeaderEarlier => f_pc = "done" /\ f_result.kind # "NoHeader"

\* A second container that starts with BODY, after a first container that
\* had a header: no-header.
C8_Witness ==
    /\ f_desc = <<IlbmForm(<<BMHD_OK>>), IlbmForm(<<BODY_1>>)>>
    /\ BodySeen
    /\ f_image.chunk_types = <<BODY>>
    /\ FailedWith("NoHeader")

\* Top-level chunks the scan passes over.
Skippable(chunk) ==
    \/ chunk.ck_id # FORM
    \/ Len(chunk.data) >= 4 /\ SubSeq(chunk.data, 1, 4) # ILBM
IsIlbmForm(chunk) ==
    chunk.ck_id = FORM /\ Len(chunk.data) >= 4 /\ SubSeq(chunk.data, 1, 4) = ILBM
ReturningTags == {BMHD, CAMG, DPI_, BODY}

\* C9: when the scan of the top-level sequence comes to its end without
\* having met a FORM ILBM, or without a container having reached a BODY,
\* read_file fails with no-image; a FORM of another type or a chunk that is
\* no FORM is passed over and the scan goes on with the next top-level
\* chunk, so the scan never stops at one unless it is the last of the file.
C9_NoImageAtEndOfScan ==
    ReadDone =>
        /\ f_tops = <<>> => f_result.kind = "NoImage"
        /\ f_tops # <<>> /\ Skippable(f_tops[Len(f_tops)]) =>
              f_result.kind = "NoImage" /\ f_tops = f_desc
        /\ (\A i \in 1..Len(f_desc) : Skippable(f_desc[i])) =>
              f_result.kind = "NoImage"
        /\ /\ f_tops # <<>>
           /\ IsIlbmForm(f_tops[Len(f_tops)])
           /\ f_sub_chunk.ck_id \notin ReturningTags
           => f_result.kind = "NoImage" /\ f_tops = f_desc
        /\ f_result.kind = "NoImage" =>
              /\ f_tops = f_desc
              /\ \A i \in 1..Len(f_image.chunk_types) :
                    f_image.chunk_types[i] # BODY
        /\ f_result.kind = "Ok" => BodySeen

\* A FORM of another type, a container with a header and no BODY, and a
\* chunk that is no FORM: all scanned, no-image.
C9_Witness ==
    /\ f_desc = <<FORM_OTHER, IlbmForm(<<BMHD_OK>>), JUNK>>
    /\ f_tops = f_desc
    /\ FailedWith("NoImage")

\* C10 as stated: read_file never calls form_type() on a chunk whose
\* payload has fewer than 4 bytes, so a top-level FORM of declared length
\* 0, 1, 2 or 3 leads to a typed result and never to the abort of form_type.
C10_FormTypeGuarded ==
    /\ f_result # Panic("Ouch, where is my form type!")
    /\ /\ ReadDone
       /\ f_tops # <<>>
       /\ f_tops[Len(f_tops)].ck_id = FORM
       /\ Len(f_tops[Len(f_tops)].data) < 4
       => f_result.kind # "Panic"


\* C11 as stated: a BMHD sub-chunk with fewer than 20 payload bytes makes
\* read_file return the typed insufficient-data error, and the length
\* assertion at the start of read_bitmap_header never fails.
C11_ShortHeaderIsNoData ==
    /\ f_result # Panic("assert buf.len() >= 20")
    /\ f_sub_chunk.ck_id = BMHD /\ Len(f_sub_chunk.data) < 20 =>
          FailedWith("NoData")


\* The BODY arm has come to its first rows.next(): the header was read, the
\* half-brite test and the plane limits have passed, pixels are asked for.
FirstRowRead ==
    /\ BodySeen /\ f_got_header /\ f_opts.read_pixels
    /\ ~(is_halfbrite(f_image.display_mode) /\ f_image.planes # 6)
    /\ f_image.planes <= (IF f_map.some THEN 8 ELSE 32)

\* C12 as stated: a failure of the decompressor while a BODY is decoded
\* reaches the caller of read_file with its kind unchanged, invalid-data as
\* invalid-data and insufficient-data as insufficient-data.  Stated for the
\* first row of the body, which is always decompressed first.
C12_DecompressorErrorUnchanged ==
    FirstRowRead /\ f_image.compression
        /\ unpacker(f_sub_chunk.data, row_stride(f_image.size[1])).kind # "Ok"
    => FailedWith(unpacker(f_sub_chunk.data, row_stride(f_image.size[1])).kind)


\* The plane rows of the body as the row iterator hands them out, as many
\* as the body holds, and the plane bits of pixel x of image row y.
RowsPerLine == f_image.planes + (IF f_image.masking = "HasMask" THEN 1 ELSE 0)
BodyRowsRead ==
    TakeRows(RowIterNew(f_sub_chunk.data, row_stride(f_image.size[1]),
                        f_image.compression),
             f_image.size[2] * RowsPerLine, <<>>).rows
LineComplete(y) == Len(BodyRowsRead) >= (y + 1) * RowsPerLine
RefBit(row, x) == (row[(x \div 8) + 1] \div (2 ^ (7 - (x % 8)))) % 2
RECURSIVE RefIndex(_, _, _)
RefIndex(y, x, p) ==
    IF p >= f_image.planes THEN 0
    ELSE RefBit(BodyRowsRead[y * RowsPerLine + p + 1], x) * (2 ^ p)
            + RefIndex(y, x, p + 1)
PlaneIndex(pos) == RefIndex(pos[1], pos[2], 0)
Positions == (0..(f_image.size[2] - 1)) \X (0..(f_image.size[1] - 1))
Before(q, pos) == q[1] < pos[1] \/ (q[1] = pos[1] /\ q[2] < pos[2])
OutPixel(pos) ==
    SubSeq(f_image.pixels, 3 * (pos[1] * f_image.size[1] + pos[2]) + 1,
           3 * (pos[1] * f_image.size[1] + pos[2]) + 3)

\* Direct mode, taken without page scaling so that output pixel x is
\* source pixel x.
DirectMode ==
    /\ FirstRowRead /\ f_map.some /\ ~f_opts.page_scale
    /\ (f_image.display_mode \div 2048) % 2 = 0
    /\ (f_image.display_mode \div 128) % 2 = 0

\* The first pixel, in row-major order, whose index is outside the map.
FirstOutside(pos) ==
    /\ LineComplete(pos[1])
    /\ PlaneIndex(pos) >= Len(f_map.colors)
    /\ \A q \in Positions : Before(q, pos) => PlaneIndex(q) < Len(f_map.colors)

\* C13: in direct mode every output pixel is the colour-map entry at the
\* index formed by the pixel's plane bits; a pixel whose index is >= the
\* map size makes read_file fail with no-map-entry carrying that index and
\* the map size, and no pixels are returned.
C13_DirectLookup ==
    DirectMode =>
        /\ f_result.kind = "Ok" =>
              \A pos \in Positions :
                  OutPixel(pos) = f_map.colors[PlaneIndex(pos) + 1]
        /\ \A pos \in Positions :
              FirstOutside(pos) =>
                  /\ f_pc = "done"
                  /\ f_result = NoMapEntry(PlaneIndex(pos), Len(f_map.colors))
                  /\ f_image.pixels = <<>>
        /\ f_result.kind = "NoMapEntry" => \E pos \in Positions : FirstOutside(pos)

\* A row whose first pixel is in the map and whose second pixel has index 3
\* in a map of 2 entries.
C13_Witness ==
    /\ DirectMode
    /\ FirstOutside(<<0, 1>>)
    /\ f_result = NoMapEntry(3, 2)


\* The step in which the BODY arm runs on a display mode that has the
\* chroma-modify bit (0x800) and the half-intensity bit (0x80) both set.
BothBits(mode) == (mode \div 2048) % 2 = 1 /\ (mode \div 128) % 2 = 1
BodyStepBothBits ==
    /\ f_pc = "sub" /\ f_pc' = "done"
    /\ f_sub_chunk'.ck_id = BODY
    /\ f_got_header
    /\ BothBits(f_image.display_mode)

\* What the same step gives on the same file with only bit 0x800 set.
SameAsHamOnly ==
    \E overflow_checks \in BOOLEAN :
        \E r \in {BodyArm(f_sub_chunk'.data,
                          Pushed([f_image EXCEPT
                                     !.display_mode = f_image.display_mode - 128],
                                 f_sub_chunk'),
                          f_map, f_got_header, f_got_camg, f_opts,
                          overflow_checks)} :
            /\ f_result' = r.res
            /\ f_image'.pixels = r.image.pixels
            /\ f_image'.size = r.image.size

\* C14 as stated: with both mode bits set read_file produces, for every
\* header and body, exactly the result it produces with only bit 0x800 set.
C14_Original == [][BodyStepBothBits => SameAsHamOnly]_vars

\* C14: with both mode bits set and exactly 6 planes chroma-modify takes
\* priority, and read_file produces exactly the result it produces with only
\* bit 0x800 set; with any other plane count the half-intensity plane test
\* comes first and read_file fails with not-supported.
C14_HamPriorityWithSixPlanes ==
    [][BodyStepBothBits =>
          IF f_image.planes = 6 THEN SameAsHamOnly
          ELSE f_result'.kind = "NotSupported" /\ f_image'.pixels = <<>>]_vars

\* Both bits, 6 planes, a map of 16 entries: decoded, and different from
\* what the half-intensity policy gives for the same rows.
C14_Witness ==
    /\ BodySeen /\ f_got_header /\ f_opts.read_pixels /\ ~f_opts.page_scale
    /\ BothBits(f_image.display_mode)
    /\ f_image.planes = 6 /\ Len(f_map.colors) = 16
    /\ f_result.kind = "Ok"
    /\ f_image.pixels # <<>>


\* C15: when BODY is reached, after a header, with the half-intensity bit
\* (0x80) set in the display mode and a plane count other than 6, read_file
\* fails with not-supported and produces no pixels; with exactly 6 planes
\* not-supported is never the result.
HalfIntensityBit == (f_image.display_mode \div 128) % 2 = 1
C15_HalfbriteNeedsSixPlanes ==
    BodySeen /\ f_got_header =>
        /\ HalfIntensityBit /\ f_image.planes # 6 =>
              FailedWith("NotSupported") /\ f_image.pixels = <<>>
        /\ f_image.planes = 6 => f_pc = "done" /\ f_result.kind # "NotSupported"

\* Mode 0x80 with 2 planes: not-supported.
C15_Witness ==
    /\ BodySeen /\ f_got_header
    /\ f_image.display_mode = 128 /\ f_image.planes = 2
    /\ f_opts.read_pixels
    /\ FailedWith("NotSupported")


\* The step in which the BODY arm runs after a header.
BodyStep ==
    /\ f_pc = "sub" /\ f_pc' = "done"
    /\ f_sub_chunk'.ck_id = BODY
    /\ f_got_header
CamgSeen == \E i \in 1..Len(f_image.chunk_types) : f_image.chunk_types[i] = CAMG
RepairCase ==
    /\ ~CamgSeen
    /\ f_image.planes = 6
    /\ f_map.some /\ Len(f_map.colors) = 16

\* What the same step gives when a CAMG chunk with value 0x800 was seen.
SameAsWithHamCamg ==
    \E overflow_checks \in BOOLEAN :
        \E r \in {BodyArm(f_sub_chunk'.data,
                          Pushed([f_image EXCEPT !.display_mode = 2048],
                                 f_sub_chunk'),
                          f_map, f_got_header, TRUE, f_opts, overflow_checks)} :
            /\ f_result' = r.res
            /\ f_image'.pixels = r.image.pixels

\* C16: when BODY is reached with exactly 6 planes, a colour map of exactly
\* 16 entries and no CAMG chunk seen earlier in the container, the display
\* mode is forced to chroma-modify: the returned image reports mode 0x800
\* and the body is decoded as with a CAMG of 0x800; with a CAMG seen,
\* whatever its value, or other planes, or another map size, the mode stays
\* as recorded.
C16_HamRepair ==
    [][BodyStep =>
          IF RepairCase
          THEN f_image'.display_mode = 2048 /\ SameAsWithHamCamg
          ELSE f_image'.display_mode = f_image.display_mode]_vars

\* No CAMG, 6 planes, 16 entries: decoded, and the image reports 0x800.
C16_Witness ==
    /\ BodySeen /\ f_got_header /\ f_opts.read_pixels
    /\ \A i \in 1..Len(f_image.chunk_types) : f_image.chunk_types[i] # CAMG
    /\ f_image.planes = 6 /\ Len(f_map.colors) = 16
    /\ f_image.display_mode = 2048
    /\ f_result.kind = "Ok" /\ f_image.pixels # <<>>


\* What the BODY step gives on the same file without the page_scale option.
Unscaled(overflow_checks) ==
    BodyArm(f_sub_chunk'.data, Pushed(f_image, f_sub_chunk'), f_map,
            f_got_header, f_got_camg, [f_opts EXCEPT !.page_scale = FALSE],
            overflow_checks).image
Triple(pixels, k) == SubSeq(pixels, 3 * k + 1, 3 * k + 3)
DoubledFrom(out, orig, width, height) ==
    /\ Len(out) = 2 * Len(orig)
    /\ \A y \in 0..(height - 1), x \in 0..(width - 1) :
          /\ Triple(out, y * 2 * width + 2 * x) = Triple(orig, y * width + x)
          /\ Triple(out, y * 2 * width + 2 * x + 1) = Triple(orig, y * width + x)

\* C17 as stated: with page_scale set, scaling is applied if and only if
\* the declared page width, as a signed 16-bit number, is strictly less than
\* the declared page height; when applied the reported width is doubled and
\* output pixels 2x and 2x+1 of every row equal original pixel x; otherwise
\* pixels and width are unchanged.
C17_PageScaleSignedCompare ==
    [][BodyStep /\ f_result'.kind = "Ok" /\ f_opts.read_pixels =>
          \E overflow_checks \in BOOLEAN :
              \E u \in {Unscaled(overflow_checks)} :
                  IF f_opts.page_scale /\ f_image.page_size[1] < f_image.page_size[2]
                  THEN /\ f_image'.size = <<2 * u.size[1], u.size[2]>>
                       /\ DoubledFrom(f_image'.pixels, u.pixels, u.size[1], u.size[2])
                  ELSE /\ f_image'.size = u.size
                       /\ f_image'.pixels = u.pixels]_vars


\* C18 as stated: a DPI sub-chunk holding two big-endian u16 values (a, b)
\* sets the image's dpi to (a, b), the first u16 of the payload and the
\* second; a payload of fewer than 4 bytes gives insufficient-data.
C18_DpiIsBothValues ==
    f_sub_chunk.ck_id = DPI_ =>
        IF Len(f_sub_chunk.data) >= 4
        THEN f_image.dpi = <<256 * f_sub_chunk.data[1] + f_sub_chunk.data[2],
                             256 * f_sub_chunk.data[3] + f_sub_chunk.data[4]>>
        ELSE FailedWith("NoData")


\* The entries of the CMAP payload as they are read, three bytes each.
CmapCount == Len(f_sub_chunk.data) \div 3
CmapRaw ==
    [i \in 1..CmapCount |->
        <<f_sub_chunk.data[3 * i - 2], f_sub_chunk.data[3 * i - 1],
          f_sub_chunk.data[3 * i]>>]
AllLowNibblesZero ==
    \A k \in 1..(3 * CmapCount) : f_sub_chunk.data[k] % 16 = 0
Replicated(c) == c + (c \div 16)

\* C19: read_color_map applies the legacy 4-bit fix exactly when the low 4
\* bits of every channel of every entry are zero; then every channel c of
\* every entry becomes c | (c >> 4), which for such a c is c + c / 16, once,
\* after the whole map is read; with a nonzero low nibble anywhere every
\* entry stays as read.
C19_LegacyFixIsAllOrNothing ==
    f_sub_chunk.ck_id = CMAP =>
        /\ f_map.some
        /\ f_image.map_size = CmapCount
        /\ f_map.colors =
              IF AllLowNibblesZero
              THEN [i \in 1..CmapCount |->
                       <<Replicated(CmapRaw[i][1]), Replicated(CmapRaw[i][2]),
                         Replicated(CmapRaw[i][3])>>]
              ELSE CmapRaw

\* (0xF0, 0xF0, 0xF0) and (0x20, 0x00, 0xF0) become (0xFF, 0xFF, 0xFF) and
\* (0x22, 0x00, 0xFF).
C19_Witness ==
    /\ f_sub_chunk = Chunk(CMAP, <<240, 240, 240, 32, 0, 240>>)
    /\ f_map.colors = <<<<255, 255, 255>>, <<34, 0, 255>>>>


\* The value of the 8 plane bits lo .. lo + 7 of a pixel, plane lo worth 1.
RECURSIVE RefByte(_, _, _)
RefByte(pos, lo, k) ==
    IF k >= 8 \/ lo + k >= f_image.planes THEN 0
    ELSE RefBit(BodyRowsRead[pos[1] * RowsPerLine + lo + k + 1], pos[2]) * (2 ^ k)
            + RefByte(pos, lo, k + 1)

\* The no-map path, taken without page scaling.
DeepMode == FirstRowRead /\ ~f_map.some /\ ~f_opts.page_scale

\* C20: with no colour map before BODY and planes <= 32, plane k gives bit
\* k of a 32-bit value per pixel; the pixel's RGB is red = bits 0..7, green
\* = bits 8..15, blue = bits 16..23, bits 24..31 are dropped, and the
\* display-mode bits play no part.
C20_DeepPixels ==
    DeepMode /\ f_result.kind = "Ok" =>
        \A pos \in Positions :
            OutPixel(pos) = <<RefByte(pos, 0, 0), RefByte(pos, 8, 0),
                              RefByte(pos, 16, 0)>>

\* 25 planes and the chroma-modify bit in the mode: a pixel with bits set
\* in all four bytes, three of them returned.
C20_Witness ==
    /\ DeepMode /\ f_result.kind = "Ok"
    /\ f_image.planes = 25
    /\ f_image.display_mode = 2048
    /\ \E pos \in Positions :
          /\ RefByte(pos, 0, 0) # 0 /\ RefByte(pos, 8, 0) # 0
          /\ RefByte(pos, 16, 0) # 0 /\ RefByte(pos, 24, 0) # 0
          /\ RefByte(pos, 0, 0) # RefByte(pos, 16, 0)


\* Chroma-modify mode with a colour map and 2 to 8 planes, without page
\* scaling: the select and the low bits of a pixel code, and the current
\* colour before the pixel.
HamMode ==
    /\ FirstRowRead /\ f_map.some /\ ~f_opts.page_scale
    /\ (f_image.display_mode \div 2048) % 2 = 1
    /\ f_image.planes >= 2
LowWidth == f_image.planes - 2
SelectOf(pos) == PlaneIndex(pos) \div (2 ^ LowWidth)
LowBitsOf(pos) == PlaneIndex(pos) % (2 ^ LowWidth)
CurrentBefore(pos) ==
    IF pos[2] = 0 THEN f_map.colors[1] ELSE OutPixel(<<pos[1], pos[2] - 1>>)
HamOutside(pos) == SelectOf(pos) = 0 /\ LowBitsOf(pos) >= Len(f_map.colors)
FirstHamOutside(pos) ==
    /\ LineComplete(pos[1])
    /\ HamOutside(pos)
    /\ \A q \in Positions : Before(q, pos) => ~HamOutside(q)

\* The channel a modify code writes holds the low bits in its top bits.
Written(channel, pos) == channel \div (2 ^ (8 - LowWidth)) = LowBitsOf(pos)

\* C21: in chroma-modify mode with P planes the top 2 of the P bits are the
\* select and the other P - 2 the low bits: select 0 makes the current
\* colour the map entry at the low bits, or fails with no-map-entry when
\* they are >= the map size; select 1 writes only blue, select 2 only red,
\* select 3 only green, the other two channels staying as they were; the
\* pixel emitted is the current colour after the update.
C21_HamSelect ==
    HamMode /\ f_map.colors # <<>> =>
        /\ f_result.kind = "Ok" =>
              \A pos \in Positions :
                  \E out \in {OutPixel(pos)}, cur \in {CurrentBefore(pos)} :
                      CASE SelectOf(pos) = 0 ->
                              out = f_map.colors[LowBitsOf(pos) + 1]
                        [] SelectOf(pos) = 1 ->
                              /\ out[1] = cur[1] /\ out[2] = cur[2]
                              /\ Written(out[3], pos)
                        [] SelectOf(pos) = 2 ->
                              /\ out[2] = cur[2] /\ out[3] = cur[3]
                              /\ Written(out[1], pos)
                        [] SelectOf(pos) = 3 ->
                              /\ out[1] = cur[1] /\ out[3] = cur[3]
                              /\ Written(out[2], pos)
        /\ \A pos \in Positions :
              FirstHamOutside(pos) =>
                  /\ f_pc = "done"
                  /\ f_result = NoMapEntry(LowBitsOf(pos), Len(f_map.colors))
        /\ f_result.kind = "NoMapEntry" => \E pos \in Positions : FirstHamOutside(pos)

\* 6 planes: a row of a red modify after a map lookup, and a row of a map
\* lookup after a red modify.
C21_Witness ==
    /\ HamMode /\ f_result.kind = "Ok"
    /\ f_image.planes = 6 /\ Len(f_map.colors) = 32
    /\ PlaneIndex(<<0, 0>>) = 1
    /\ PlaneIndex(<<0, 1>>) = 47
    /\ OutPixel(<<0, 1>>)[1] \div 16 = 15
    /\ OutPixel(<<0, 1>>)[2] = f_map.colors[2][2]
    /\ OutPixel(<<1, 1>>) = f_map.colors[2]


\* A row of pixel codes resolved on its own, from a current colour: the
\* colours of its pixels.  A modify code gives the low bits shifted to the
\* top of the channel, ORed with that value shifted right by the number of
\* low bits (the two never overlap, so the OR is a sum).
ModifyValue(low) == (low * (2 ^ (8 - LowWidth))) + ((low * (2 ^ (8 - LowWidth))) \div (2 ^ LowWidth))
ColourAfter(code, cur) ==
    CASE code \div (2 ^ LowWidth) = 0 -> f_map.colors[(code % (2 ^ LowWidth)) + 1]
      [] code \div (2 ^ LowWidth) = 1 -> <<cur[1], cur[2], ModifyValue(code % (2 ^ LowWidth))>>
      [] code \div (2 ^ LowWidth) = 2 -> <<ModifyValue(code % (2 ^ LowWidth)), cur[2], cur[3]>>
      [] OTHER -> <<cur[1], ModifyValue(code % (2 ^ LowWidth)), cur[3]>>
RECURSIVE RowAlone(_, _)
RowAlone(codes, cur) ==
    IF codes = <<>> THEN <<>>
    ELSE ColourAfter(Head(codes), cur) \o RowAlone(Tail(codes), ColourAfter(Head(codes), cur))
RowCodes(y) == [x \in 1..f_image.size[1] |-> PlaneIndex(<<y, x - 1>>)]
RowOutput(y) ==
    SubSeq(f_image.pixels, 3 * y * f_image.size[1] + 1, 3 * (y + 1) * f_image.size[1])

\* C22: in chroma-modify mode the current colour starts as map entry 0 at
\* the start of every row, so the output of a row is given by the row's own
\* pixel codes and the colour map, whatever the rows before it; an empty
\* colour map fails with no-map-entry (index 0, map size 0).
C22_HamRowsAreSeeded ==
    HamMode =>
        /\ f_result.kind = "Ok" =>
              \A y \in 0..(f_image.size[2] - 1) :
                  RowOutput(y) = RowAlone(RowCodes(y), f_map.colors[1])
        /\ f_map.colors = <<>> /\ LineComplete(0) =>
              f_pc = "done" /\ f_result = NoMapEntry(0, 0)

\* A second row that starts with a modify code, after a first row that
\* ended on a colour other than map entry 0.
C22_Witness ==
    /\ HamMode /\ f_result.kind = "Ok"
    /\ f_image.size = <<2, 2>>
    /\ SelectOf(<<1, 0>>) = 2
    /\ OutPixel(<<0, 1>>) # f_map.colors[1]
    /\ OutPixel(<<0, 1>>)[2] # f_map.colors[1][2]
    /\ OutPixel(<<1, 0>>)[2] = f_map.colors[1][2]


\* The channel of the emitted pixel that the modify code at pos writes.
WrittenChannel(pos) ==
    CASE SelectOf(pos) = 1 -> OutPixel(pos)[3]
      [] SelectOf(pos) = 2 -> OutPixel(pos)[1]
      [] OTHER -> OutPixel(pos)[2]

\* C23 as stated: for every plane count P from 3 to 8 the component a
\* modify code writes is the P - 2 low bits shifted left to fill 8 bits and
\* refilled from the high-order bits, so that low bits all ones give 0xFF,
\* low bits all zero give 0x00, and the result fits in 8 bits.
C23_FullIntensityReachable ==
    HamMode /\ f_result.kind = "Ok" /\ f_image.planes \in 3..8 =>
        \A pos \in Positions :
            SelectOf(pos) # 0 =>
                /\ WrittenChannel(pos) \in 0..255
                /\ Written(WrittenChannel(pos), pos)
                /\ LowBitsOf(pos) = (2 ^ LowWidth) - 1 => WrittenChannel(pos) = 255
                /\ LowBitsOf(pos) = 0 => WrittenChannel(pos) = 0


\* Half-intensity mode: bit 0x80 without bit 0x800, 6 planes, a colour map.
HalfMode ==
    /\ FirstRowRead /\ f_map.some /\ ~f_opts.page_scale
    /\ (f_image.display_mode \div 128) % 2 = 1
    /\ (f_image.display_mode \div 2048) % 2 = 0
    /\ f_image.planes = 6
HalfIndex(pos) == PlaneIndex(pos) % 32
HalfBit(pos) == (PlaneIndex(pos) \div 32) % 2 = 1
FirstHalfOutside(pos) ==
    /\ LineComplete(pos[1])
    /\ HalfIndex(pos) >= Len(f_map.colors)
    /\ \A q \in Positions : Before(q, pos) => HalfIndex(q) < Len(f_map.colors)

\* C24: in half-intensity mode the low 5 bits of a pixel index the colour
\* map, failing with no-map-entry when the index is >= the map size; the
\* output is the entry with every channel shifted right by 1 when bit 5 of
\* the pixel is set, and the entry as it is when the bit is clear.
C24_HalfIntensity ==
    HalfMode =>
        /\ f_result.kind = "Ok" =>
              \A pos \in Positions :
                  \E rgb \in {f_map.colors[HalfIndex(pos) + 1]} :
                      OutPixel(pos) =
                          IF HalfBit(pos)
                          THEN <<rgb[1] \div 2, rgb[2] \div 2, rgb[3] \div 2>>
                          ELSE rgb
        /\ \A pos \in Positions :
              FirstHalfOutside(pos) =>
                  /\ f_pc = "done"
                  /\ f_result = NoMapEntry(HalfIndex(pos), Len(f_map.colors))
        /\ f_result.kind = "NoMapEntry" => \E pos \in Positions : FirstHalfOutside(pos)

\* Pixel 33 is entry 1 halved, pixel 31 is entry 31 as it is.
C24_Witness ==
    /\ HalfMode /\ f_result.kind = "Ok"
    /\ Len(f_map.colors) = 32
    /\ PlaneIndex(<<0, 0>>) = 33 /\ PlaneIndex(<<0, 1>>) = 31
    /\ OutPixel(<<0, 0>>) = <<f_map.colors[2][1] \div 2, f_map.colors[2][2] \div 2,
                              f_map.colors[2][3] \div 2>>
    /\ OutPixel(<<0, 0>>) # f_map.colors[2]
    /\ OutPixel(<<0, 1>>) = f_map.colors[32]


\* The rows the BODY step reads from its chunk, and the same step run on
\* other rows, stored uncompressed.
StepRows ==
    TakeRows(RowIterNew(f_sub_chunk'.data, row_stride(f_image.size[1]),
                        f_image.compression),
             f_image.size[2] * RowsPerLine, <<>>).rows
RECURSIVE Flatten(_)
Flatten(rows) == IF rows = <<>> THEN <<>> ELSE Head(rows) \o Flatten(Tail(rows))
StepOn(rows, masking, overflow_checks) ==
    BodyArm(Flatten(rows),
            [Pushed(f_image, f_sub_chunk') EXCEPT !.compression = FALSE,
                                                  !.masking = masking],
            f_map, f_got_header, f_got_camg, f_opts, overflow_checks)
SameOutcome(r) == f_result' = r.res /\ f_image'.pixels = r.image.pixels

\* A row with every bit at a position >= width inverted.
PadWidth(col, width) ==
    IF width - 8 * col >= 8 THEN 0
    ELSE IF width - 8 * col <= 0 THEN 8 ELSE 8 - (width - 8 * col)
FlipPadding(row, width) ==
    [i \in 1..Len(row) |->
        row[i] - (row[i] % (2 ^ PadWidth(i - 1, width)))
               + ((2 ^ PadWidth(i - 1, width)) - 1
                     - (row[i] % (2 ^ PadWidth(i - 1, width))))]
PaddingFlipped(rows) == [r \in 1..Len(rows) |-> FlipPadding(rows[r], f_image.size[1])]

\* The rows with the bit of pixel x inverted in row r, and a byte with bit k
\* inverted.
XorBit(v, k) == IF (v \div (2 ^ k)) % 2 = 1 THEN v - (2 ^ k) ELSE v + (2 ^ k)
BitFlipped(rows, r, x) ==
    [rows EXCEPT ![r] = [@ EXCEPT ![(x \div 8) + 1] = XorBit(@, 7 - (x % 8))]]
ProbedPlanes == {0, 7, 8, 23, 24, 31} \cap (0..(f_image.planes - 1))
PixelsWithPlaneFlipped(pos, p) ==
    IF p >= 24 THEN f_image'.pixels
    ELSE [f_image'.pixels EXCEPT
             ![3 * (pos[1] * f_image.size[1] + pos[2]) + (p \div 8) + 1] =
                 XorBit(@, p % 8)]
DeepStep ==
    /\ ~f_map.some /\ ~f_opts.page_scale
    /\ f_result'.kind = "Ok" /\ f_image'.pixels # <<>>
DecodeStep == BodyStep /\ f_opts.read_pixels
StrideOf(width) == ((width + 15) \div 16) * 2

\* C25: the plane rows of a body are ((width + 15) / 16) * 2 bytes long;
\* pixel x reads, in the row of plane p, the bit x mod 8 counted from the
\* most significant bit of byte x div 8, and that bit is bit p of the
\* pixel: inverting it in a body without a colour map inverts bit p of the
\* pixel's 24-bit value and nothing else; the bits at positions >= width
\* never affect any pixel: inverting all of them gives the same outcome.
C25_PlaneBits ==
    [][DecodeStep =>
          \E rows \in {StepRows} :
              /\ f_result'.kind = "Ok" =>
                    /\ Len(rows) = f_image.size[2] * RowsPerLine
                    /\ \A r \in 1..Len(rows) :
                          Len(rows[r]) = StrideOf(f_image.size[1])
                    /\ ~f_image.compression =>
                          Len(f_sub_chunk'.data) >=
                              f_image.size[2] * RowsPerLine * StrideOf(f_image.size[1])
              /\ \E overflow_checks \in BOOLEAN :
                    SameOutcome(StepOn(PaddingFlipped(rows), f_image.masking,
                                       overflow_checks))
              /\ DeepStep =>
                    \A pos \in Positions : \A p \in ProbedPlanes :
                        \E r \in {StepOn(BitFlipped(rows, pos[1] * RowsPerLine + p + 1,
                                                    pos[2]),
                                         f_image.masking, FALSE)} :
                            /\ r.res.kind = "Ok"
                            /\ r.image.pixels = PixelsWithPlaneFlipped(pos, p)]_vars

\* A decoded 2-pixel row whose first plane row has the bit of pixel 0 set,
\* the bit of pixel 1 clear and all 14 bits beyond the width set.
C25_Witness ==
    /\ FirstRowRead /\ f_result.kind = "Ok"
    /\ f_image.size[1] = 2
    /\ BodyRowsRead[1] = <<128 + 63, 255>>
    /\ PlaneIndex(<<0, 0>>) % 2 = 1 /\ PlaneIndex(<<0, 1>>) % 2 = 0
    /\ OutPixel(<<0, 0>>) # OutPixel(<<0, 1>>)


\* The rows of a body with a mask row per image row, the mask rows left out.
MaskRemoved(rows, planes) ==
    [i \in 1..((Len(rows) \div (planes + 1)) * planes) |->
        rows[((i - 1) \div planes) * (planes + 1) + ((i - 1) % planes) + 1]]
Front(rows) == SubSeq(rows, 1, Len(rows) - 1)
RowsReached ==
    /\ ~(is_halfbrite(f_image'.display_mode) /\ f_image.planes # 6)
    /\ f_image.planes <= (IF f_map.some THEN 8 ELSE 32)

\* C26: with masking has-mask one more row is read, and dropped, after the
\* plane rows of each image row: a successful decode has read
\* height * (planes + 1) rows and fails with one row less, its pixels are
\* those of the same body without the mask rows under masking none, and a
\* body that ends where a mask row is due is not decoded (insufficient-data
\* when it is the mask row of the first image row); with any other masking
\* a successful decode has read height * planes rows.
C26_MaskRows ==
    [][DecodeStep =>
          \E rows \in {StepRows} :
              /\ f_result'.kind = "Ok" /\ f_image.size[2] * f_image.planes > 0 =>
                    /\ Len(rows) = f_image.size[2] *
                          (f_image.planes + (IF f_image.masking = "HasMask" THEN 1 ELSE 0))
                    /\ StepOn(Front(rows), f_image.masking, FALSE).res = Res("NoData")
              /\ f_image.masking = "HasMask" =>
                    /\ f_result'.kind = "Ok" =>
                          SameOutcome(StepOn(MaskRemoved(rows, f_image.planes),
                                             "NoMask", FALSE))
                    /\ \A y \in 0..(f_image.size[2] - 1) :
                          Len(rows) = y * (f_image.planes + 1) + f_image.planes =>
                              /\ f_result'.kind # "Ok"
                              /\ y = 0 /\ RowsReached => f_result' = Res("NoData")]_vars

\* A two-row image with a mask row after the 2 plane rows of each image row,
\* decoded; and one whose body ends before the first mask row.
C26_Witness ==
    /\ FirstRowRead /\ f_image.masking = "HasMask"
    /\ f_image.size[2] = 2 /\ f_image.planes = 2
    /\ f_result.kind = "Ok" /\ Len(f_image.pixels) = 3 * f_image.size[1] * 2
    /\ Len(BodyRowsRead) = 6


\* read_file is inside a container: in its loop over the sub-chunks, or
\* returned from one of the arms.
InContainer ==
    /\ f_tops # <<>> /\ f_sub_chunk # NoChunk
    /\ \/ f_pc = "sub"
       \/ /\ f_pc = "done" /\ f_result.kind # "NoImage"
          /\ f_result # Panic("Ouch, where is my form type!")

\* The sub-chunks of the container that have been yielded so far, the last
\* of them being f_sub_chunk.
RECURSIVE Collect(_, _)
Collect(r, acc) ==
    IF r = f_subr THEN acc
    ELSE LET n == IffNext(r)
         IN  IF ~n.some THEN acc ELSE Collect(n.reader, Append(acc, n.chunk))
SeenSubs == Collect(sub_chunks(f_tops[Len(f_tops)]).reader, <<>>)

\* The position in a chunk list of the last chunk with a tag whose payload
\* has at least min bytes, 0 when there is none.
LastWith(subs, tag, min) ==
    IF \E i \in 1..Len(subs) : subs[i].ck_id = tag /\ Len(subs[i].data) >= min
    THEN CHOOSE i \in 1..Len(subs) :
            /\ subs[i].ck_id = tag /\ Len(subs[i].data) >= min
            /\ \A j \in (i + 1)..Len(subs) :
                  ~(subs[j].ck_id = tag /\ Len(subs[j].data) >= min)
    ELSE 0
U16At(data, k) == 256 * data[k] + data[k + 1]
U32At(data, k) == 65536 * U16At(data, k) + U16At(data, k + 2)
Unrecognised(chunk) == chunk.ck_id \notin {BMHD, CMAP, CAMG, DPI_, BODY}
Repaired ==
    /\ BodySeen /\ f_got_header /\ ~f_got_camg
    /\ f_image.planes = 6 /\ f_map.some /\ Len(f_map.colors) = 16

\* The map, its size, the mode and the dpi as the chunks of subs leave them.
StateFrom(subs) ==
    /\ \E i \in {LastWith(subs, CMAP, 0)} :
          IF i = 0 THEN f_map = NoMap /\ f_image.map_size = 0
          ELSE /\ f_map = [some |-> TRUE, colors |-> read_color_map(subs[i].data)]
               /\ f_image.map_size = Len(subs[i].data) \div 3
    /\ \E i \in {LastWith(subs, CAMG, 4)} :
          /\ f_got_camg = (i # 0)
          /\ ~Repaired =>
                f_image.display_mode = IF i = 0 THEN 0 ELSE U32At(subs[i].data, 1)
    /\ \E i \in {LastWith(subs, DPI_, 2)} :
          f_image.dpi = IF i = 0 THEN <<0, 0>> ELSE read_dpi(subs[i].data).dpi
    /\ f_image.chunk_types = [i \in 1..Len(subs) |-> subs[i].ck_id]

\* C27: whatever the sub-chunks of a container, the colour map is the one
\* read from the last CMAP chunk yielded so far and the reported map size
\* is its entry count, so that a BODY is resolved with the last CMAP before
\* it; the display mode is the one of the last CAMG chunk; a chunk with an
\* unrecognised tag leaves header, map, mode and dpi as they were and
\* read_file goes on without an error.
C27_LastChunkWins ==
    InContainer =>
        \E subs \in {SeenSubs} :
            /\ StateFrom(subs)
            /\ Unrecognised(f_sub_chunk) =>
                  /\ f_pc = "sub" /\ f_result.kind = "Running"
                  /\ f_got_header = (LastWith(subs, BMHD, 20) # 0)

\* A body resolved after a 2-entry map, an unrecognised chunk and a 4-entry
\* map: the pixel codes 1 and 2 give entries 1 and 2 of the 4-entry map.
C27_Witness ==
    /\ InContainer /\ BodySeen
    /\ f_desc = OrderFile(<<CMAP_2, ANNO_ODD, CMAP_4>>)
    /\ f_image.map_size = 4
    /\ f_result.kind = "Ok"
    /\ f_image.pixels = <<19, 18, 17, 29, 28, 27>>


\* C28 as stated: with a colour map and the chroma-modify bit, a body of 1
\* to 8 planes never makes read_file abort, and a plane count that
\* chroma-modify cannot interpret (1 plane: planes - 2 is below 0) fails
\* with not-supported.
C28_HamNeverAborts ==
    FirstRowRead /\ f_map.some /\ is_ham(f_image.display_mode)
        /\ f_image.planes \in 1..8 =>
            /\ f_result.kind # "Panic"
            /\ f_image.planes < 2 => FailedWith("NotSupported")


\* A container was entered after an earlier FORM ILBM of the stream.
EarlierContainer ==
    \E i \in 1..(Len(f_tops) - 1) : IsIlbmForm(f_tops[i])
JustEntered == f_pc = "sub" /\ f_sub_chunk = NoChunk
HeaderReadIn(subs) ==
    \E i \in 1..Len(subs) :
        subs[i].ck_id = BMHD /\ (i < Len(subs) \/ f_pc = "sub")
TagIn(subs, tag) == \E i \in 1..Len(subs) : subs[i].ck_id = tag

\* C29: the decode state belongs to one container: a container entered
\* after an earlier FORM ILBM starts with no header, no map, no CAMG, mode
\* 0, dpi (0, 0) and an empty tag list, and inside it the header-seen flag,
\* the map, the CAMG-seen flag and the tag list come from its own chunks
\* only; so its BODY fails with no-header when no BMHD of its own precedes
\* it, and a returned image lists the tags of that container only, up to
\* and including BODY.
C29_StatePerContainer ==
    EarlierContainer =>
        /\ JustEntered =>
              /\ f_image = DefaultImage(ILBM) /\ f_map = NoMap
              /\ ~f_got_header /\ ~f_got_camg
        /\ InContainer =>
              \E subs \in {SeenSubs} :
                  /\ f_got_header = HeaderReadIn(subs)
                  /\ f_map.some = TagIn(subs, CMAP)
                  /\ f_got_camg = (LastWith(subs, CAMG, 4) # 0)
                  /\ ~TagIn(subs, CAMG) /\ ~Repaired => f_image.display_mode = 0
                  /\ ~TagIn(subs, DPI_) => f_image.dpi = <<0, 0>>
                  /\ ~TagIn(subs, CMAP) => f_image.map_size = 0
                  /\ f_image.chunk_types = [i \in 1..Len(subs) |-> subs[i].ck_id]
                  /\ BodySeen /\ ~TagIn(SubSeq(subs, 1, Len(subs) - 1), BMHD) =>
                        FailedWith("NoHeader")
                  /\ f_result.kind = "Ok" =>
                        /\ BodySeen
                        /\ \A i \in 1..(Len(subs) - 1) : subs[i].ck_id # BODY

\* After a container with a valid BMHD and a CMAP and no BODY, a container
\* holding only a BODY: no-header, no map, and BODY as the only tag.
C29_Witness ==
    /\ f_desc = <<IlbmForm(<<BMHD_OK, CMAP_2>>), IlbmForm(<<BODY_1>>)>>
    /\ EarlierContainer /\ InContainer /\ BodySeen
    /\ FailedWith("NoHeader")
    /\ f_map = NoMap /\ ~f_got_header
    /\ f_image.chunk_types = <<BODY>>

====
